---- MODULE Spec2Model ----
(***************************************************************************)
(* State-machine model of the fluid simulation engine                      *)
(* (src/fluid-simulation.js).  One action per handler the host can run:    *)
(* the script body, the animation-frame callback update(), the seeding     *)
(* timer, the mouse and keyboard listeners and the FluidField control      *)
(* surface.  A handler runs to completion; what it did is kept in `log`.   *)
(*                                                                         *)
(* Units.  Clock readings are milliseconds (Date.now()).  dt and           *)
(* colorUpdateTimer are kept in millionths (dt = 16666 is 0.016666 s).     *)
(* Math.random() values are thousandths.  Hues are 1/3600000 of a turn, so *)
(* that the palette hues d/360 and the jitter are whole numbers.           *)
(* A buffer's content is abstracted to (id, ver): ver counts the draws     *)
(* into it since it was allocated and cleared, so that equal (id, ver)     *)
(* means identical content and ver = 0 means the cleared content.          *)
(***************************************************************************)
EXTENDS Integers, Sequences, FiniteSets, TLC

VARIABLES
  env,              \* the host: canvas element, contexts, extensions
  phase,            \* "load" | "declined" | "threw" | "running"
  thrown,           \* the uncaught exception of the script body, or "none"
  CONFIG,           \* the CONFIG object
  ext,              \* the negotiated capabilities (getWebGLContext().ext)
  canvas,           \* clientWidth/clientHeight (host) and width/height
  dye, velocity, divergence, curl, pressure,
  allocs,           \* textures (with their framebuffers) created by createFBO
  pointers,
  splatStack,
  paletteIndex,
  lastUpdateTime,
  colorUpdateTimer,
  rng,              \* position of the Math.random() generator
  genCalls,         \* calls of generateColor since the script started
  viewport,         \* the GL viewport's width and height
  rafPending,       \* requestAnimationFrame callbacks scheduled and not run
  timerPending,     \* the setTimeout(..., 100) callback is scheduled
  listeners,        \* the event listeners are registered
  fluidField,       \* window.FluidField is set
  readyEvents,      \* 'fluid-ready' events dispatched
  log,              \* what the last handler did, in order
  tickSnaps,        \* the fields as the last two ticks left them
  ticksLeft,        \* update() runs still explored
  eventsLeft,       \* host events and control-surface calls still explored
  texels,           \* a velocity texture and the divergence drawn from it
  todo              \* the task list of the todo application

fluid == <<env, phase, thrown, CONFIG, ext, canvas, dye, velocity, divergence,
           curl, pressure, allocs, pointers, splatStack, paletteIndex,
           lastUpdateTime, colorUpdateTimer, rng, genCalls, viewport,
           rafPending, timerPending, listeners, fluidField, readyEvents, log,
           tickSnaps, ticksLeft, eventsLeft>>

vars == <<fluid, texels, todo>>

\* ------------------------------------------------------------- bounds
MaxTicks == 3
MaxEvents == 2
MaxRollovers == 2

\* -------------------------------------------------- program constants
PRESSURE_ITERATIONS == 20
SIM_RESOLUTION == 128
DYE_RESOLUTION == 1024
DYE_RESOLUTION_LOW == 512
COLOR_UPDATE_SPEED == 9
DtClamp == 16666
PaletteLength == 4
SeedSplats == 20
JitterSpan == 216
HueTurn == 3600000
BurstSpan == 20
BurstBase == 5

Min(a, b) == IF a < b THEN a ELSE b
Max(a, b) == IF a > b THEN a ELSE b

\* JavaScript's %: the remainder takes the sign of the dividend.
JsRem(a, b) == IF a >= 0 THEN a % b ELSE -((-a) % b)

\* Math.round of the positive quotient n/d.
RoundDiv(n, d) == (2 * n + d) \div (2 * d)

\* --------------------------------------------------------------- host
RandomValues == <<0, 500, 999>>
ClientSizes == {<<800, 600>>, <<1600, 1200>>, <<801, 600>>, <<600, 800>>}
MousePositions == {<<100, 100>>, <<200, 150>>}

\* Fingers that can be on the canvas at once.
MaxFingers == 2

Formats16F == {"R16F", "RG16F", "RGBA16F"}

\* A host: the canvas element, the contexts and extensions it offers, and
\* its clock: the milliseconds Date.now() can advance between two readings
\* of the driver loop (elapsed) and between lines 374 and 394 (bootElapsed).
Host(found, kind, hf, lin, r, mobile, elapsed, bootElapsed) ==
  [canvasFound |-> found, glKind |-> kind, halfFloat |-> hf, linear |-> lin,
   renderable |-> r, mobile |-> mobile, shaders |-> "ok",
   devicePixelRatio |-> <<1, 1>>, touches |-> <<>>,
   elapsed |-> elapsed, bootElapsed |-> bootElapsed]

\* Every combination of capabilities.  A WebGL1 context has none of the 16F
\* enums, a WebGL2 context never asks for the half-float extension: those
\* components are kept at one value.
AllHosts ==
  {Host(FALSE, "none", FALSE, FALSE, {}, FALSE, {16}, {0}),
   Host(TRUE, "none", FALSE, FALSE, {}, FALSE, {16}, {0})}
  \cup {Host(TRUE, "webgl1", hf, lin, {}, m, {16}, {0}) :
          hf \in BOOLEAN, lin \in BOOLEAN, m \in BOOLEAN}
  \cup {Host(TRUE, "webgl2", FALSE, lin, r, m, {16}, {0}) :
          lin \in BOOLEAN, r \in SUBSET Formats16F, m \in BOOLEAN}

\* Hosts on which the engine starts, with a steady clock.
RunHosts == {Host(TRUE, "webgl2", FALSE, TRUE, Formats16F, FALSE, {16}, {0})}

\* A host whose clock may stall, jump ahead or be set back between ticks.
ClockHosts == {Host(TRUE, "webgl2", FALSE, TRUE, Formats16F, FALSE,
                    {-3, 0, 16, 17, 250}, {0, 1})}

\* Hosts whose GLSL compiler accepts the shaders, rejects one ("compile"),
\* or whose linker rejects a program ("link").
ShaderHosts ==
  {[h EXCEPT !.shaders = f] : h \in AllHosts, f \in {"ok", "compile", "link"}}

\* ------------------------------------------------------------- fields
NoFormat == [internalFormat |-> "null", format |-> "null"]
NoFBO == [id |-> 0, width |-> 0, height |-> 0, ver |-> 0,
          internalFormat |-> "null", param |-> "null"]
NoDoubleFBO == [oid |-> 0, width |-> 0, height |-> 0,
                fbo1 |-> NoFBO, fbo2 |-> NoFBO]
NoExt == [formatRGBA |-> NoFormat, formatRG |-> NoFormat, formatR |-> NoFormat,
          halfFloatTexType |-> "null", supportLinearFiltering |-> FALSE]

DoubleFields == {"dye", "velocity", "pressure"}
SingleFields == {"divergence", "curl"}

pointerPrototype ==
  [id |-> -1, texcoordX |-> <<0, 1>>, texcoordY |-> <<0, 1>>,
   prevTexcoordX |-> <<0, 1>>, prevTexcoordY |-> <<0, 1>>,
   deltaX |-> <<0, 1>>, deltaY |-> <<0, 1>>, down |-> FALSE, moved |-> FALSE,
   color |-> [kind |-> "array", pick |-> -1, jitter |-> 0, hue |-> 0]]

\* The mutable globals of the script as one record, threaded through the
\* operators that model its functions.
Cur ==
  [CONFIG |-> CONFIG, ext |-> ext, canvas |-> canvas,
   dye |-> dye, velocity |-> velocity, divergence |-> divergence,
   curl |-> curl, pressure |-> pressure, allocs |-> allocs,
   pointers |-> pointers, splatStack |-> splatStack,
   paletteIndex |-> paletteIndex, lastUpdateTime |-> lastUpdateTime,
   colorUpdateTimer |-> colorUpdateTimer, rng |-> rng,
   genCalls |-> genCalls, viewport |-> viewport,
   rafPending |-> rafPending, bind |-> phase = "running",
   exc |-> "none", log |-> <<>>]

Commit(s) ==
  /\ CONFIG' = s.CONFIG
  /\ ext' = s.ext
  /\ canvas' = s.canvas
  /\ dye' = s.dye
  /\ velocity' = s.velocity
  /\ divergence' = s.divergence
  /\ curl' = s.curl
  /\ pressure' = s.pressure
  /\ allocs' = s.allocs
  /\ pointers' = s.pointers
  /\ splatStack' = s.splatStack
  /\ paletteIndex' = s.paletteIndex
  /\ lastUpdateTime' = s.lastUpdateTime
  /\ colorUpdateTimer' = s.colorUpdateTimer
  /\ rng' = s.rng
  /\ genCalls' = s.genCalls
  /\ viewport' = s.viewport
  /\ rafPending' = s.rafPending
  /\ log' = s.log
  /\ UNCHANGED <<texels, todo>>

Note(s, e) == [s EXCEPT !.log = Append(@, e)]

\* Math.random(): the value at the generator's position; Advance moves it.
Random(s) == RandomValues[s.rng + 1]
Advance(s, n) == [s EXCEPT !.rng = (@ + n) % Len(RandomValues)]

\* ------------------------------------------- Field/Resource Manager
filtering(s) == IF s.ext.supportLinearFiltering THEN "LINEAR" ELSE "NEAREST"

\* IEEE-754 double arithmetic of lines 780-785, for a base resolution that
\* is a power of two (128, 512 and 1024 are the ones in use).  The product
\* resolution * aspectRatio is then exact, and Math.round of it differs
\* from the rounding of the exact quotient only where the quotient lies
\* exactly halfway between two integers.
RECURSIVE Pow2(_)
Pow2(n) == IF n = 0 THEN 1 ELSE 2 * Pow2(n - 1)

RECURSIVE Log2Floor(_)
Log2Floor(n) == IF n < 2 THEN 0 ELSE 1 + Log2Floor(n \div 2)

RECURSIVE Pow2Mod(_, _)
Pow2Mod(e, m) == IF e = 0 THEN 1 % m ELSE (2 * Pow2Mod(e - 1, m)) % m

\* Math.round(P/2 * (1.0 / (P / D))) where D/P = k + 1/2 over P/2, D odd:
\* P / D is rounded to 53 bits (rem is the remainder of that division);
\* when it was rounded up, its inverse falls below D / P, and is rounded
\* back to D / P only when the excess is within half a unit of the last
\* place of D / P.
roundHalfwayInverted(D, P) ==
  LET f == Log2Floor(D \div P)
      rem == (P * Pow2Mod(53 + f, D)) % D
      up == \/ rem = 0
            \/ 2 * rem < D
            \/ (D - rem) * D <= (Pow2(f) * P) * (Pow2(f) * P)
  IN IF up THEN (D + 1) \div 2 ELSE (D - 1) \div 2

\* Math.round(resolution * (1.0 / (w / h))) for w < h.
roundInverted(resolution, w, h) ==
  LET D == (2 * resolution * h) \div w
  IN IF (2 * resolution * h) % w # 0 \/ D % 2 = 0
     THEN RoundDiv(resolution * h, w)
     ELSE roundHalfwayInverted(D, 2 * resolution)

getResolution(s, resolution) ==
  LET w == s.canvas.width
      h == s.canvas.height
      min == resolution
      max == IF w < h THEN roundInverted(resolution, w, h)
                      ELSE RoundDiv(resolution * w, h)
  IN IF w > h THEN [width |-> max, height |-> min]
              ELSE [width |-> min, height |-> max]

\* createFBO returns the existing object when the dimensions match; else it
\* allocates a texture and a framebuffer, sets the viewport and clears.
createFBO(s, w, h, internalFormat, param, existingFbo) ==
  IF existingFbo.id # 0 /\ existingFbo.width = w /\ existingFbo.height = h
  THEN [s |-> s, fbo |-> existingFbo]
  ELSE LET id == s.allocs + 1
       IN [s |-> Note([s EXCEPT !.allocs = id, !.viewport = <<w, h>>],
                      [op |-> "alloc", id |-> id]),
           fbo |-> [id |-> id, width |-> w, height |-> h, ver |-> 0,
                    internalFormat |-> internalFormat, param |-> param]]

\* Variants of createDoubleFBO used to test the resize properties: one that
\* never reuses the existing field, one that compares the height only.
createDoubleFBOAlways(s, w, h, internalFormat, param, existingDouble) ==
  LET a == createFBO(s, w, h, internalFormat, param, NoFBO)
      b == createFBO(a.s, w, h, internalFormat, param, NoFBO)
  IN [s |-> b.s,
      fbo |-> [oid |-> a.fbo.id, width |-> w, height |-> h,
               fbo1 |-> a.fbo, fbo2 |-> b.fbo]]

createDoubleFBOHeightOnly(s, w, h, internalFormat, param, existingDouble) ==
  IF existingDouble.oid # 0 /\ existingDouble.height = h
  THEN [s |-> s, fbo |-> existingDouble]
  ELSE createDoubleFBOAlways(s, w, h, internalFormat, param, existingDouble)

\* A variant of createDoubleFBO whose read and write are one buffer.
createDoubleFBOAliased(s, w, h, internalFormat, param, existingDouble) ==
  IF existingDouble.oid # 0 /\ existingDouble.width = w
     /\ existingDouble.height = h
  THEN [s |-> s, fbo |-> existingDouble]
  ELSE LET a == createFBO(s, w, h, internalFormat, param, NoFBO)
       IN [s |-> a.s,
           fbo |-> [oid |-> a.fbo.id, width |-> w, height |-> h,
                    fbo1 |-> a.fbo, fbo2 |-> a.fbo]]

createDoubleFBO(s, w, h, internalFormat, param, existingDouble) ==
  IF existingDouble.oid # 0 /\ existingDouble.width = w
     /\ existingDouble.height = h
  THEN [s |-> s, fbo |-> existingDouble]
  ELSE LET a == createFBO(s, w, h, internalFormat, param, NoFBO)
           b == createFBO(a.s, w, h, internalFormat, param, NoFBO)
       IN [s |-> b.s,
           fbo |-> [oid |-> a.fbo.id, width |-> w, height |-> h,
                    fbo1 |-> a.fbo, fbo2 |-> b.fbo]]

\* Reading .internalFormat of a null format is a TypeError.
Throw(s, what) == [s EXCEPT !.exc = what]

\* One assignment of initFramebuffers each; a format that is null makes the
\* read of its .internalFormat throw, and the rest is not executed.
initDye(s) ==
  IF s.ext.formatRGBA = NoFormat THEN Throw(s, "TypeError")
  ELSE LET res == getResolution(s, s.CONFIG.DYE_RESOLUTION)
           d == createDoubleFBO(s, res.width, res.height,
                                s.ext.formatRGBA.internalFormat, filtering(s),
                                s.dye)
       IN [d.s EXCEPT !.dye = d.fbo]

initVelocity(s) ==
  IF s.exc # "none" THEN s
  ELSE IF s.ext.formatRG = NoFormat THEN Throw(s, "TypeError")
  ELSE LET res == getResolution(s, s.CONFIG.SIM_RESOLUTION)
           v == createDoubleFBO(s, res.width, res.height,
                                s.ext.formatRG.internalFormat, filtering(s),
                                s.velocity)
       IN [v.s EXCEPT !.velocity = v.fbo]

initDivergence(s) ==
  IF s.exc # "none" THEN s
  ELSE IF s.ext.formatR = NoFormat THEN Throw(s, "TypeError")
  ELSE LET res == getResolution(s, s.CONFIG.SIM_RESOLUTION)
           f == createFBO(s, res.width, res.height,
                          s.ext.formatR.internalFormat, "NEAREST", s.divergence)
       IN [f.s EXCEPT !.divergence = f.fbo]

initCurl(s) ==
  IF s.exc # "none" THEN s
  ELSE LET res == getResolution(s, s.CONFIG.SIM_RESOLUTION)
           f == createFBO(s, res.width, res.height,
                          s.ext.formatR.internalFormat, "NEAREST", s.curl)
       IN [f.s EXCEPT !.curl = f.fbo]

initPressure(s) ==
  IF s.exc # "none" THEN s
  ELSE LET res == getResolution(s, s.CONFIG.SIM_RESOLUTION)
           p == createDoubleFBO(s, res.width, res.height,
                                s.ext.formatR.internalFormat, "NEAREST",
                                s.pressure)
       IN [p.s EXCEPT !.pressure = p.fbo]

\* The five fields of the script.
Fields(s) ==
  [dye |-> s.dye, velocity |-> s.velocity, divergence |-> s.divergence,
   curl |-> s.curl, pressure |-> s.pressure]

\* The record a completed initFramebuffers leaves in the log: the
\* resolutions it computed, the fields it found and the fields it left.
initFramebuffersDone(s0, s1) ==
  IF s1.exc # "none" THEN s1
  ELSE Note(s1, [op |-> "initFramebuffers",
                 simRes |-> getResolution(s0, s0.CONFIG.SIM_RESOLUTION),
                 dyeRes |-> getResolution(s0, s0.CONFIG.DYE_RESOLUTION),
                 canvas |-> <<s0.canvas.width, s0.canvas.height>>,
                 before |-> Fields(s0), after |-> Fields(s1),
                 allocsBefore |-> s0.allocs, allocsAfter |-> s1.allocs])

initFramebuffers(s) ==
  initFramebuffersDone(s,
    initPressure(initCurl(initDivergence(initVelocity(initDye(
      Note(s, [op |-> "call", fn |-> "initFramebuffers"])))))))

\* ------------------------------------------------------ GPU passes
SetViewport(s, w, h) == [s EXCEPT !.viewport = <<w, h>>]

\* The buffers that are the write side of a double field at this moment.
Writes(s) == {s.velocity.fbo2.id, s.dye.fbo2.id, s.pressure.fbo2.id} \ {0}

\* blit(X.write.fbo): one draw of the bound program into the write buffer
\* of the double field X, sampling the buffers `src`.
BlitWrite(s, field, prog, src, dt) ==
  Note([s EXCEPT ![field].fbo2.ver = @ + 1],
       [op |-> "draw", prog |-> prog, field |-> field,
        dst |-> s[field].fbo2.id, src |-> src, vp |-> s.viewport, dt |-> dt,
        writes |-> Writes(s)])

\* blit(X.fbo) for the single field X.
BlitSingle(s, field, prog, src) ==
  Note([s EXCEPT ![field].ver = @ + 1],
       [op |-> "draw", prog |-> prog, field |-> field,
        dst |-> s[field].id, src |-> src, vp |-> s.viewport, dt |-> 0,
        writes |-> Writes(s)])

\* blit(null): a draw to the display surface.
BlitScreen(s, prog, src) ==
  Note(s, [op |-> "draw", prog |-> prog, field |-> "screen", dst |-> 0,
           src |-> src, vp |-> s.viewport, dt |-> 0, writes |-> Writes(s)])

swap(s, field) ==
  Note([s EXCEPT ![field].fbo1 = s[field].fbo2, ![field].fbo2 = s[field].fbo1],
       [op |-> "swap", field |-> field, read |-> s[field].fbo2.id])

\* ---------------------------------------------------- Color Generator
\* PALETTE[i].h in hue units (195/360, 308/360, 140/360, 265/360 of a turn).
PALETTE == <<1950000, 3080000, 1400000, 2650000>>

\* A variant of generateColor that does not advance paletteIndex.
generateColorStuck(s) ==
  LET idx == s.paletteIndex % PaletteLength
      jitter == (Random(s) - 500) * JitterSpan
      hue == JsRem(PALETTE[idx + 1] + jitter + HueTurn, HueTurn)
      color == [kind |-> "rgb", pick |-> idx, jitter |-> jitter, hue |-> hue]
      s1 == Advance([s EXCEPT !.genCalls = @ + 1], 1)
  IN [s |-> Note(s1, [op |-> "gen", k |-> s.genCalls, color |-> color]),
      color |-> color]

\* generateColor: the palette entry at paletteIndex++ % PALETTE.length, its
\* hue moved by (Math.random() - 0.5) * 0.06 and wrapped into one turn.
generateColor(s) ==
  LET idx == s.paletteIndex % PaletteLength
      jitter == (Random(s) - 500) * JitterSpan
      hue == JsRem(PALETTE[idx + 1] + jitter + HueTurn, HueTurn)
      color == [kind |-> "rgb", pick |-> idx, jitter |-> jitter, hue |-> hue]
      s1 == Advance([s EXCEPT !.paletteIndex = @ + 1, !.genCalls = @ + 1], 1)
  IN [s |-> Note(s1, [op |-> "gen", k |-> s.genCalls, color |-> color]),
      color |-> color]

\* wrap(value, 0, 1) in millionths.
wrap(value, min, max) ==
  LET range == max - min
  IN IF range = 0 THEN min
     ELSE JsRem(JsRem(value - min, range) + range, range) + min

\* ------------------------------------------------------ Splat Injector
\* splat: one additive pass into velocity, one into dye, each followed by
\* the swap of the field written.
splatVelocity(s) ==
  swap(BlitWrite(s, "velocity", "splat", {s.velocity.fbo1.id}, 0), "velocity")

splatDye(s, color) ==
  swap(Note(BlitWrite(s, "dye", "splat", {s.dye.fbo1.id}, 0),
            [op |-> "splatColor", color |-> color]), "dye")

ViewportOf(s, field) == SetViewport(s, s[field].width, s[field].height)

splat(s, color) ==
  IF ~s.bind
  THEN Note(s, [op |-> "warn", msg |-> "Splat program not initialized yet"])
  ELSE splatDye(ViewportOf(splatVelocity(ViewportOf(s, "velocity")), "dye"),
                color)

\* A variant of the loop of multipleSplats that runs once more (i <= amount).
RECURSIVE multipleSplatsInclusive(_, _, _)
multipleSplatsInclusive(s, i, amount) ==
  IF s.exc # "none" \/ ~(i <= amount) THEN s
  ELSE LET g == generateColor(s)
           s1 == Advance(g.s, 4)
       IN multipleSplatsInclusive(splat(s1, g.color), i + 1, amount)

RECURSIVE multipleSplatsFrom(_, _, _)
multipleSplatsFrom(s, i, amount) ==
  IF s.exc # "none" \/ ~(i < amount) THEN s
  ELSE LET g == generateColor(s)
           \* x, y, dx, dy: four more Math.random() calls
           s1 == Advance(g.s, 4)
       IN multipleSplatsFrom(splat(s1, g.color), i + 1, amount)

multipleSplats(s, amount) ==
  multipleSplatsFrom(Note(s, [op |-> "call", fn |-> "multipleSplats",
                              amount |-> amount]), 0, amount)

splatPointer(s, pointer) == splat(s, pointer.color)

\* --------------------------------------------------- Simulation Stepper
\* A variant of the Jacobi loop that runs one pass more.
RECURSIVE pressureLoopOneMore(_, _)
pressureLoopOneMore(s, i) ==
  IF ~(i <= s.CONFIG.PRESSURE_ITERATIONS) THEN s
  ELSE pressureLoopOneMore(
         swap(BlitWrite(s, "pressure", "pressure",
                        {s.divergence.id, s.pressure.fbo1.id}, 0),
              "pressure"),
         i + 1)

RECURSIVE pressureLoop(_, _)
pressureLoop(s, i) ==
  IF ~(i < s.CONFIG.PRESSURE_ITERATIONS) THEN s
  ELSE pressureLoop(
         swap(BlitWrite(s, "pressure", "pressure",
                        {s.divergence.id, s.pressure.fbo1.id}, 0),
              "pressure"),
         i + 1)

curlPass(s) == BlitSingle(s, "curl", "curl", {s.velocity.fbo1.id})

vorticityPass(s, dt) ==
  swap(BlitWrite(s, "velocity", "vorticity",
                 {s.velocity.fbo1.id, s.curl.id}, dt), "velocity")

divergencePass(s) ==
  BlitSingle(s, "divergence", "divergence", {s.velocity.fbo1.id})

clearPass(s) ==
  swap(BlitWrite(s, "pressure", "clear", {s.pressure.fbo1.id}, 0), "pressure")

gradientSubtractPass(s) ==
  swap(BlitWrite(s, "velocity", "gradientSubtract",
                 {s.pressure.fbo1.id, s.velocity.fbo1.id}, 0), "velocity")

advectVelocity(s, dt) ==
  swap(BlitWrite(s, "velocity", "advection", {s.velocity.fbo1.id}, dt),
       "velocity")

\* A variant of the dye advection that leaves out dye.swap().
advectDyeUnswapped(s, dt) ==
  BlitWrite(s, "dye", "advection", {s.velocity.fbo1.id, s.dye.fbo1.id}, dt)

advectDye(s, dt) ==
  swap(BlitWrite(s, "dye", "advection",
                 {s.velocity.fbo1.id, s.dye.fbo1.id}, dt), "dye")

\* A variant of step that keeps the velocity viewport for the dye advection.
stepOneViewport(s, dt) ==
  IF ~s.bind THEN s
  ELSE advectDye(
         advectVelocity(gradientSubtractPass(pressureLoop(clearPass(
           divergencePass(vorticityPass(curlPass(ViewportOf(
             Note(s, [op |-> "call", fn |-> "step"]), "velocity")), dt))),
           0)), dt), dt)

\* A variant of step that computes the divergence before the vorticity
\* confinement.
stepDivergenceFirst(s, dt) ==
  IF ~s.bind THEN s
  ELSE advectDye(ViewportOf(
         advectVelocity(gradientSubtractPass(pressureLoop(clearPass(
           vorticityPass(divergencePass(curlPass(ViewportOf(
             Note(s, [op |-> "call", fn |-> "step"]), "velocity"))), dt)),
           0)), dt), "dye"), dt)

\* step: returns at once while a program is not bindable; else the eight
\* stages in the order of the code.
step(s, dt) ==
  IF ~s.bind THEN s
  ELSE advectDye(ViewportOf(
         advectVelocity(gradientSubtractPass(pressureLoop(clearPass(
           divergencePass(vorticityPass(curlPass(ViewportOf(
             Note(s, [op |-> "call", fn |-> "step"]), "velocity")), dt))),
           0)), dt), "dye"), dt)

\* ------------------------------------------------ Compositor/Renderer
drawColor(s) == BlitScreen(s, "color", {})
drawDisplay(s) == BlitScreen(s, "display", {s.dye.fbo1.id})
backColor(s) == IF ~s.CONFIG.TRANSPARENT THEN drawColor(s) ELSE s

render(s) ==
  IF ~s.bind THEN s
  ELSE drawDisplay(backColor(SetViewport(
         Note(s, [op |-> "call", fn |-> "render"]),
         s.canvas.width, s.canvas.height)))

\* --------------------------------------------------------- the tick
\* A variant of calcDeltaTime without the Math.min.
calcDeltaTimeUnclamped(s, now) ==
  [s |-> [s EXCEPT !.lastUpdateTime = now],
   dt |-> (now - s.lastUpdateTime) * 1000]

calcDeltaTime(s, now) ==
  [s |-> [s EXCEPT !.lastUpdateTime = now],
   dt |-> Min((now - s.lastUpdateTime) * 1000, DtClamp)]

\* Math.floor(input * (window.devicePixelRatio || 1)), the ratio a fraction.
scaleByPixelRatio(input) ==
  (input * env.devicePixelRatio[1]) \div env.devicePixelRatio[2]

resizeCanvas(s) ==
  s.canvas.width # scaleByPixelRatio(s.canvas.clientWidth)
  \/ s.canvas.height # scaleByPixelRatio(s.canvas.clientHeight)

resized(s) ==
  [s EXCEPT !.canvas.width = scaleByPixelRatio(s.canvas.clientWidth),
            !.canvas.height = scaleByPixelRatio(s.canvas.clientHeight)]

RECURSIVE recolorFrom(_, _)
recolorFrom(s, i) ==
  IF i > Len(s.pointers) THEN s
  ELSE LET g == generateColor(s)
       IN recolorFrom([g.s EXCEPT !.pointers[i].color = g.color], i + 1)

\* A variant of updateColors' threshold test that recolors in every tick.
recoloredAlways(s, timer) ==
  recolorFrom([s EXCEPT !.colorUpdateTimer = wrap(timer, 0, 1000000)], 1)

recolored(s, timer) ==
  IF timer >= 1000000
  THEN recolorFrom([s EXCEPT !.colorUpdateTimer = wrap(timer, 0, 1000000)], 1)
  ELSE [s EXCEPT !.colorUpdateTimer = timer]

updateColors(s, dt) ==
  IF ~s.CONFIG.COLORFUL THEN s
  ELSE recolored(s, s.colorUpdateTimer + dt * s.CONFIG.COLOR_UPDATE_SPEED)

\* A variant of the pointer loop of applyInputs that leaves moved set.
RECURSIVE splatMovedKept(_, _)
splatMovedKept(s, i) ==
  IF i > Len(s.pointers) THEN s
  ELSE IF s.pointers[i].moved
       THEN splatMovedKept(
              splatPointer(Note(s, [op |-> "splatPointer", pointer |-> i]),
                           s.pointers[i]), i + 1)
       ELSE splatMovedKept(s, i + 1)

RECURSIVE splatMovedFrom(_, _)
splatMovedFrom(s, i) ==
  IF i > Len(s.pointers) THEN s
  ELSE IF s.pointers[i].moved
       THEN splatMovedFrom(
              splatPointer(Note([s EXCEPT !.pointers[i].moved = FALSE],
                                [op |-> "splatPointer", pointer |-> i]),
                           s.pointers[i]), i + 1)
       ELSE splatMovedFrom(s, i + 1)

\* A variant of the burst test of applyInputs that takes the oldest request.
popSplatsOldest(s) ==
  IF Len(s.splatStack) > 0
  THEN multipleSplats([s EXCEPT !.splatStack = Tail(@)], s.splatStack[1])
  ELSE s

popSplats(s) ==
  IF Len(s.splatStack) > 0
  THEN multipleSplats([s EXCEPT !.splatStack = SubSeq(@, 1, Len(@) - 1)],
                      s.splatStack[Len(s.splatStack)])
  ELSE s

applyInputs(s) ==
  splatMovedFrom(popSplats(Note(s, [op |-> "call", fn |-> "applyInputs"])), 1)

\* A variant of the pause test of update() that steps regardless.
stepAlways(s, dt) == step(s, dt)

stepUnlessPaused(s, dt) == IF ~s.CONFIG.PAUSED THEN step(s, dt) ELSE s

resizeIfChanged(s) == IF resizeCanvas(s) THEN initFramebuffers(resized(s)) ELSE s

scheduleNext(s) ==
  Note([s EXCEPT !.rafPending = @ + 1],
       [op |-> "call", fn |-> "requestAnimationFrame"])

\* A variant of update() that applies the inputs before the resize check.
updateInputsFirst(s, now, elapsed, dt) ==
  scheduleNext(render(stepUnlessPaused(updateColors(resizeIfChanged(
    applyInputs(Note(s, [op |-> "call", fn |-> "update", now |-> now,
                         elapsed |-> elapsed, dt |-> dt]))),
    dt), dt)))

updateWith(s, now, elapsed, dt) ==
  scheduleNext(render(stepUnlessPaused(applyInputs(updateColors(
    resizeIfChanged(Note(s, [op |-> "call", fn |-> "update", now |-> now,
                             elapsed |-> elapsed, dt |-> dt])),
    dt)), dt)))

\* update(): one tick.  `now` is the reading of Date.now().
update(s, now) ==
  updateWith(calcDeltaTime(s, now).s, now, now - s.lastUpdateTime,
             calcDeltaTime(s, now).dt)

\* ----------------------------------------------- Capability Negotiator
\* supportRenderTextureFormat: the framebuffer completeness probe.  On a
\* WebGL1 context the 16F enums are undefined and the probe fails.
supportRenderTextureFormat(internalFormat) == internalFormat \in env.renderable

getFallbackFormat == [internalFormat |-> "RGBA", format |-> "RGBA"]

RECURSIVE getSupportedFormat(_, _, _)
getSupportedFormat(internalFormat, format, isWebGL2) ==
  IF ~supportRenderTextureFormat(internalFormat)
  THEN IF ~isWebGL2 THEN getFallbackFormat
       ELSE CASE internalFormat = "R16F" ->
                   getSupportedFormat("RG16F", "RG", isWebGL2)
              [] internalFormat = "RG16F" ->
                   getSupportedFormat("RGBA16F", "RGBA", isWebGL2)
              [] OTHER -> NoFormat
  ELSE [internalFormat |-> internalFormat, format |-> format]

\* A variant of getWebGLContext that dereferences the missing context.
getWebGLContextUnguarded ==
  IF env.glKind = "none" THEN [gl |-> FALSE, exc |-> "TypeError", ext |-> NoExt]
  ELSE [gl |-> TRUE, exc |-> "none",
        ext |-> [NoExt EXCEPT !.formatRGBA = getFallbackFormat,
                              !.formatRG = getFallbackFormat,
                              !.formatR = getFallbackFormat]]

\* getWebGLContext: {} without a context; a TypeError when a WebGL1 context
\* has no OES_texture_half_float (halfFloat.HALF_FLOAT_OES of null).
getWebGLContext ==
  LET isWebGL2 == env.glKind = "webgl2"
      e16(f) == IF isWebGL2 THEN f ELSE "undefined"
  IN IF env.glKind = "none" THEN [gl |-> FALSE, exc |-> "none", ext |-> NoExt]
     ELSE IF ~isWebGL2 /\ ~env.halfFloat
     THEN [gl |-> FALSE, exc |-> "TypeError", ext |-> NoExt]
     ELSE [gl |-> TRUE, exc |-> "none",
           ext |-> [formatRGBA |-> getSupportedFormat(e16("RGBA16F"), e16("RGBA"), isWebGL2),
                    formatRG |-> getSupportedFormat(e16("RG16F"), e16("RG"), isWebGL2),
                    formatR |-> getSupportedFormat(e16("R16F"), e16("RED"), isWebGL2),
                    halfFloatTexType |->
                      IF isWebGL2 THEN "HALF_FLOAT" ELSE "HALF_FLOAT_OES",
                    supportLinearFiltering |-> env.linear]]

\* ------------------------------------------------------ the script body
CONFIG0 ==
  [SIM_RESOLUTION |-> SIM_RESOLUTION, DYE_RESOLUTION |-> DYE_RESOLUTION,
   PRESSURE_ITERATIONS |-> PRESSURE_ITERATIONS, SHADING |-> TRUE,
   COLORFUL |-> TRUE, COLOR_UPDATE_SPEED |-> COLOR_UPDATE_SPEED,
   TRANSPARENT |-> FALSE, PAUSED |-> FALSE]

\* The page before the script runs.  The canvas element has the HTML default
\* drawing-buffer size or already the size of its box.
\* No texture under inspection, no task list loaded.
NoTexels == [w |-> 0, h |-> 0, vel |-> <<>>, div |-> <<>>, drawn |-> FALSE]
NoTodo == [tasks |-> <<>>, last |-> <<>>, calls |-> 0, tz |-> 0]

Loaded(hosts, clientSizes, canvasSizes, rngs, nTicks, nEvents) ==
  /\ env \in hosts
  /\ phase = "load"
  /\ thrown = "none"
  /\ CONFIG = CONFIG0
  /\ ext = NoExt
  /\ \E size \in canvasSizes, client \in clientSizes :
       canvas = [clientWidth |-> client[1], clientHeight |-> client[2],
                 width |-> size[1], height |-> size[2]]
  /\ dye = NoDoubleFBO
  /\ velocity = NoDoubleFBO
  /\ divergence = NoFBO
  /\ curl = NoFBO
  /\ pressure = NoDoubleFBO
  /\ allocs = 0
  /\ pointers = <<>>
  /\ splatStack = <<>>
  /\ paletteIndex = 0
  /\ lastUpdateTime = 0
  /\ colorUpdateTimer = 0
  /\ rng \in rngs
  /\ genCalls = 0
  /\ viewport = <<0, 0>>
  /\ rafPending = 0
  /\ timerPending = FALSE
  /\ listeners = FALSE
  /\ fluidField = FALSE
  /\ readyEvents = 0
  /\ log = <<>>
  /\ tickSnaps = <<>>
  /\ ticksLeft = nTicks
  /\ eventsLeft = nEvents

InitSized(hosts, clientSizes, canvasSizes, rngs, nTicks, nEvents) ==
  /\ Loaded(hosts, clientSizes, canvasSizes, rngs, nTicks, nEvents)
  /\ texels = NoTexels
  /\ todo = NoTodo

InitWith(hosts, canvasSizes, rngs, nTicks, nEvents) ==
  InitSized(hosts, {<<800, 600>>}, canvasSizes, rngs, nTicks, nEvents)

Init == InitWith(RunHosts, {<<300, 150>>}, {0}, MaxTicks, MaxEvents)

\* What a tick leaves behind: the pause flag and the three double fields.
Snap(s) ==
  [paused |-> s.CONFIG.PAUSED, velocity |-> s.velocity, dye |-> s.dye,
   pressure |-> s.pressure]

Remember(snaps, s) ==
  IF Len(snaps) < 2 THEN Append(snaps, Snap(s)) ELSE <<snaps[2], Snap(s)>>

\* A variant of Stop that dispatches 'fluid-ready' all the same.
StopAndSignal(s, how, exc) ==
  /\ Commit(s)
  /\ phase' = how
  /\ thrown' = exc
  /\ readyEvents' = readyEvents + 1
  /\ UNCHANGED <<env, timerPending, listeners, fluidField,
                 tickSnaps, ticksLeft, eventsLeft>>

\* The script stops: nothing after the point reached is executed.
Stop(s, how, exc) ==
  /\ Commit(s)
  /\ phase' = how
  /\ thrown' = exc
  /\ UNCHANGED <<env, timerPending, listeners, fluidField, readyEvents,
                 tickSnaps, ticksLeft, eventsLeft>>

\* /Mobi|Android/i.test(navigator.userAgent)
isMobile == env.mobile

\* A variant of the CONFIG adjustment that leaves lighting shading enabled.
NegotiatedShaded(s, g) ==
  [s EXCEPT !.ext = g.ext,
            !.pointers = <<pointerPrototype>>,
            !.CONFIG.DYE_RESOLUTION =
              IF isMobile \/ ~g.ext.supportLinearFiltering
              THEN DYE_RESOLUTION_LOW ELSE @]

\* Lines 46-63: the primary pointer, the context, the CONFIG adjustment.
Negotiated(s, g) ==
  [s EXCEPT !.ext = g.ext,
            !.pointers = <<pointerPrototype>>,
            !.CONFIG.DYE_RESOLUTION =
              IF isMobile \/ ~g.ext.supportLinearFiltering
              THEN DYE_RESOLUTION_LOW ELSE @,
            !.CONFIG.SHADING =
              IF ~g.ext.supportLinearFiltering THEN FALSE ELSE @]

\* Lines 363-377: the fields, then the first update(), which runs before
\* Program.prototype.bind is assigned (line 923).
Started(s, el) ==
  /\ Commit(update([s EXCEPT !.lastUpdateTime = 0], el))
  /\ phase' = "running"
  /\ timerPending' = TRUE
  /\ listeners' = TRUE
  /\ fluidField' = TRUE
  /\ readyEvents' = readyEvents + 1
  /\ UNCHANGED <<env, thrown, tickSnaps, ticksLeft, eventsLeft>>

\* A variant of the shader and program construction that ignores failures.
buildProgramsUnchecked(s) == s

\* Lines 65-346: compileShader throws the shader info log when a shader
\* does not compile, createProgram the program info log when a program does
\* not link.
buildPrograms(s) ==
  IF env.shaders = "compile" THEN Throw(s, "ShaderInfoLog")
  ELSE IF env.shaders = "link" THEN Throw(s, "ProgramInfoLog")
  ELSE s

\* Line 363, reached only when nothing was thrown before.
Constructed(s) == IF s.exc # "none" THEN s ELSE initFramebuffers(s)

StartOrThrow(s) ==
  IF s.exc # "none" THEN Stop(s, "threw", s.exc)
  ELSE \E el \in env.bootElapsed : Started(s, el)

Negotiate(g) ==
  IF g.exc # "none"
  THEN Stop([Cur EXCEPT !.pointers = <<pointerPrototype>>], "threw", g.exc)
  ELSE IF ~g.gl
  THEN Stop(Note([Cur EXCEPT !.pointers = <<pointerPrototype>>],
                 [op |-> "warn", msg |-> "WebGL context not available"]),
            "declined", "none")
  ELSE StartOrThrow(Constructed(buildPrograms(Negotiated(Cur, g))))

\* The whole script body, run once when the script is loaded.
Boot ==
  /\ phase = "load"
  /\ IF ~env.canvasFound
     THEN Stop(Note(Cur, [op |-> "warn", msg |-> "canvas not found"]),
               "declined", "none")
     ELSE Negotiate(getWebGLContext)

\* ------------------------------------------------- the driver loop
Ticked(s) ==
  /\ Commit(s)
  /\ tickSnaps' = Remember(tickSnaps, s)

Tick ==
  /\ phase = "running"
  /\ rafPending > 0
  /\ ticksLeft > 0
  /\ \E el \in env.elapsed :
       Ticked(update([Cur EXCEPT !.rafPending = @ - 1], lastUpdateTime + el))
  /\ ticksLeft' = ticksLeft - 1
  /\ UNCHANGED <<env, phase, thrown, timerPending, listeners, fluidField,
                 readyEvents, eventsLeft>>

\* setTimeout(() => { try { multipleSplats(20) } catch ... }, 100)
SeedTimer ==
  /\ phase = "running"
  /\ timerPending
  /\ Commit(multipleSplats(Note(Cur, [op |-> "call", fn |-> "timer"]),
                           SeedSplats))
  /\ timerPending' = FALSE
  /\ UNCHANGED <<env, phase, thrown, listeners, fluidField, readyEvents,
                 tickSnaps, ticksLeft, eventsLeft>>

Handled(s) ==
  /\ Commit(s)
  /\ eventsLeft' = eventsLeft - 1
  /\ UNCHANGED <<env, phase, thrown, timerPending, listeners, fluidField,
                 readyEvents, tickSnaps, ticksLeft>>

Called(fn) == Note(Cur, [op |-> "call", fn |-> fn])

\* The host changes the size of the canvas element's box.
HostResize ==
  /\ phase = "running"
  /\ eventsLeft > 0
  /\ \E size \in ClientSizes :
       /\ size # <<canvas.clientWidth, canvas.clientHeight>>
       /\ Handled([Called("hostResize") EXCEPT !.canvas.clientWidth = size[1],
                                               !.canvas.clientHeight = size[2]])

\* ------------------------------------------------ pointer listeners
\* Coordinates are fractions <<numerator, denominator>>.
RECURSIVE GCD(_, _)
GCD(a, b) == IF b = 0 THEN a ELSE GCD(b, a % b)
Abs(x) == IF x < 0 THEN -x ELSE x
Frac(n, d) == <<n \div GCD(Abs(n), d), d \div GCD(Abs(n), d)>>
FracSub(a, b) == Frac(a[1] * b[2] - b[1] * a[2], a[2] * b[2])
FracNonZero(a) == a[1] # 0

\* delta *= aspectRatio when the canvas is taller than wide
correctDeltaX(s, delta) ==
  IF s.canvas.width < s.canvas.height
  THEN Frac(delta[1] * Frac(s.canvas.width, s.canvas.height)[1],
            delta[2] * Frac(s.canvas.width, s.canvas.height)[2])
  ELSE delta

\* delta /= aspectRatio when the canvas is wider than tall
correctDeltaY(s, delta) ==
  IF s.canvas.width > s.canvas.height
  THEN Frac(delta[1] * Frac(s.canvas.width, s.canvas.height)[2],
            delta[2] * Frac(s.canvas.width, s.canvas.height)[1])
  ELSE delta

pointerDown(p, id, posX, posY, w, h, color) ==
  [p EXCEPT !.id = id, !.down = TRUE, !.moved = FALSE,
            !.texcoordX = Frac(posX, w), !.texcoordY = Frac(h - posY, h),
            !.prevTexcoordX = Frac(posX, w), !.prevTexcoordY = Frac(h - posY, h),
            !.deltaX = Frac(0, 1), !.deltaY = Frac(0, 1), !.color = color]

\* A variant of updatePointerDownData that keeps the color of the slot.
updatePointerDownDataUncolored(s, i, id, posX, posY) ==
  [s EXCEPT !.pointers[i] =
     pointerDown(@, id, posX, posY, s.canvas.width, s.canvas.height, @.color)]

updatePointerDownData(s, i, id, posX, posY) ==
  [generateColor(s).s EXCEPT !.pointers[i] =
     pointerDown(@, id, posX, posY, s.canvas.width, s.canvas.height,
                 generateColor(s).color)]

pointerMove(p, x, y, dx, dy) ==
  [p EXCEPT !.prevTexcoordX = p.texcoordX, !.prevTexcoordY = p.texcoordY,
            !.texcoordX = x, !.texcoordY = y, !.deltaX = dx, !.deltaY = dy,
            !.moved = FracNonZero(dx) \/ FracNonZero(dy)]

updatePointerMoveData(s, i, posX, posY) ==
  [s EXCEPT !.pointers[i] =
     pointerMove(@, Frac(posX, s.canvas.width),
                 Frac(s.canvas.height - posY, s.canvas.height),
                 correctDeltaX(s, FracSub(Frac(posX, s.canvas.width),
                                          @.texcoordX)),
                 correctDeltaY(s, FracSub(Frac(s.canvas.height - posY,
                                               s.canvas.height),
                                          @.texcoordY)))]

updatePointerUpData(s, i) == [s EXCEPT !.pointers[i].down = FALSE]

MouseDown ==
  /\ listeners
  /\ eventsLeft > 0
  /\ \E pos \in MousePositions :
       Handled(updatePointerDownData(Called("mousedown"), 1, -1,
                                     scaleByPixelRatio(pos[1]),
                                     scaleByPixelRatio(pos[2])))

MouseMove ==
  /\ listeners
  /\ eventsLeft > 0
  /\ \E pos \in MousePositions :
       Handled(IF ~pointers[1].down THEN Called("mousemove")
               ELSE updatePointerMoveData(Called("mousemove"), 1,
                                          scaleByPixelRatio(pos[1]),
                                          scaleByPixelRatio(pos[2])))

MouseUp ==
  /\ listeners
  /\ eventsLeft > 0
  /\ Handled(updatePointerUpData(Called("mouseup"), 1))

\* ------------------------------------------------ touch listeners
\* env.touches is e.targetTouches: the fingers on the canvas in the order
\* they were put down, each with its identifier and its page position.
Touch(id, pos) == [identifier |-> id, pageX |-> pos[1], pageY |-> pos[2]]

TouchIds(t) == {t[k].identifier : k \in 1 .. Len(t)}

\* while (touches.length >= pointers.length) pointers.push(...)
RECURSIVE growPointers(_, _)
growPointers(s, n) ==
  IF n >= Len(s.pointers)
  THEN growPointers([s EXCEPT !.pointers = Append(@, pointerPrototype)], n)
  ELSE s

RECURSIVE touchDownFrom(_, _, _)
touchDownFrom(s, t, i) ==
  IF i > Len(t) THEN s
  ELSE touchDownFrom(
         updatePointerDownData(s, i + 1, t[i].identifier,
                               scaleByPixelRatio(t[i].pageX),
                               scaleByPixelRatio(t[i].pageY)), t, i + 1)

touchstart(s, t) == touchDownFrom(growPointers(s, Len(t)), t, 1)

RECURSIVE touchMoveFrom(_, _, _)
touchMoveFrom(s, t, i) ==
  IF i > Len(t) THEN s
  ELSE IF ~s.pointers[i + 1].down THEN touchMoveFrom(s, t, i + 1)
  ELSE touchMoveFrom(
         updatePointerMoveData(s, i + 1, scaleByPixelRatio(t[i].pageX),
                               scaleByPixelRatio(t[i].pageY)), t, i + 1)

touchmove(s, t) == touchMoveFrom(s, t, 1)

\* pointers.find(p => p.id === identifier): the first match, 0 for none
find(ps, id) ==
  IF \E i \in 1 .. Len(ps) : ps[i].id = id
  THEN CHOOSE i \in 1 .. Len(ps) :
         /\ ps[i].id = id
         /\ \A j \in 1 .. i - 1 : ps[j].id # id
  ELSE 0

touchend(s, id) ==
  IF find(s.pointers, id) = 0 THEN s
  ELSE updatePointerUpData(s, find(s.pointers, id))

HandledTouch(s, t) ==
  /\ Commit(s)
  /\ eventsLeft' = eventsLeft - 1
  /\ env' = [env EXCEPT !.touches = t]
  /\ UNCHANGED <<phase, thrown, timerPending, listeners, fluidField,
                 readyEvents, tickSnaps, ticksLeft>>

RemoveAt(t, k) == SubSeq(t, 1, k - 1) \o SubSeq(t, k + 1, Len(t))

\* A finger is put down: the host gives it an identifier no active touch has.
TouchStart ==
  /\ listeners
  /\ eventsLeft > 0
  /\ Len(env.touches) < MaxFingers
  /\ \E id \in (0 .. MaxFingers - 1) \ TouchIds(env.touches),
        pos \in MousePositions :
       HandledTouch(touchstart(Called("touchstart"),
                               Append(env.touches, Touch(id, pos))),
                    Append(env.touches, Touch(id, pos)))

\* One finger moves; the event lists every finger on the canvas.
TouchMove ==
  /\ listeners
  /\ eventsLeft > 0
  /\ \E k \in 1 .. Len(env.touches), pos \in MousePositions :
       /\ pos # <<env.touches[k].pageX, env.touches[k].pageY>>
       /\ HandledTouch(
            touchmove(Called("touchmove"),
                      [env.touches EXCEPT
                         ![k] = Touch(@.identifier, pos)]),
            [env.touches EXCEPT ![k] = Touch(@.identifier, pos)])

\* One finger is lifted.
TouchEnd ==
  /\ listeners
  /\ eventsLeft > 0
  /\ \E k \in 1 .. Len(env.touches) :
       HandledTouch(touchend(Called("touchend"), env.touches[k].identifier),
                    RemoveAt(env.touches, k))

\* ------------------------------------------------ keyboard listener
\* A variant of the keydown listener in which KeyP sets PAUSED.
keydownSetsPause(s, code) ==
  IF code = "Space"
  THEN Advance([s EXCEPT !.splatStack =
                  Append(@, (Random(s) * BurstSpan) \div 1000 + BurstBase)], 1)
  ELSE IF code = "KeyP" THEN [s EXCEPT !.CONFIG.PAUSED = TRUE]
  ELSE s

keydown(s, code) ==
  IF code = "Space"
  THEN Advance([s EXCEPT !.splatStack =
                  Append(@, (Random(s) * BurstSpan) \div 1000 + BurstBase)], 1)
  ELSE IF code = "KeyP" THEN [s EXCEPT !.CONFIG.PAUSED = ~@]
  ELSE s

KeyDown ==
  /\ listeners
  /\ eventsLeft > 0
  /\ \E code \in {"Space", "KeyP", "KeyA"} :
       Handled(keydown(Note(Cur, [op |-> "call", fn |-> "keydown",
                                  code |-> code]), code))

\* ---------------------------------------------- the control surface
Pause ==
  /\ fluidField
  /\ eventsLeft > 0
  /\ Handled([Called("pause") EXCEPT !.CONFIG.PAUSED = TRUE])

Resume ==
  /\ fluidField
  /\ eventsLeft > 0
  /\ Handled([Called("resume") EXCEPT !.CONFIG.PAUSED = FALSE])

IsPaused ==
  /\ fluidField
  /\ eventsLeft > 0
  /\ Handled(Note(Called("isPaused"), [op |-> "return", value |-> CONFIG.PAUSED]))

AddRandomSplats ==
  /\ fluidField
  /\ eventsLeft > 0
  /\ \E amount \in {-1, 0, 2} :
       Handled(multipleSplats(Called("addRandomSplats"), amount))

\* splatNormalized(x, y, dx, dy, color): color || generateColor()
HostColor == [kind |-> "rgb", pick |-> -1, jitter |-> 0, hue |-> 0]

splatNormalized(s, given) ==
  IF given THEN splat(s, HostColor)
  ELSE splat(generateColor(s).s, generateColor(s).color)

SplatNormalized ==
  /\ fluidField
  /\ eventsLeft > 0
  /\ \E given \in BOOLEAN :
       Handled(splatNormalized(Called("splatNormalized"), given))

Next ==
  \/ Boot
  \/ Tick
  \/ SeedTimer
  \/ HostResize
  \/ MouseDown
  \/ MouseMove
  \/ MouseUp
  \/ KeyDown
  \/ Pause
  \/ Resume
  \/ IsPaused
  \/ AddRandomSplats
  \/ SplatNormalized

Spec == Init /\ [][Next]_vars

\* Every host, the engine left to run: no input, no control-surface call.
InitBoot ==
  InitWith(AllHosts, {<<300, 150>>, <<800, 600>>}, 0 .. Len(RandomValues) - 1,
           MaxTicks, 0)

NextBoot == Boot \/ Tick \/ SeedTimer

SpecBoot == InitBoot /\ [][NextBoot]_vars

\* The driver loop under an unsteady clock, with the pause toggle.
InitClock == InitWith(ClockHosts, {<<300, 150>>}, {0}, MaxTicks, 1)

NextClock == Boot \/ Tick \/ KeyDown

SpecClock == InitClock /\ [][NextClock]_vars

\* The driver loop and the mouse: a press, moves and a release between ticks.
InitPointer == InitWith(RunHosts, {<<300, 150>>}, {0}, MaxTicks, MaxEvents + 2)

NextPointer == Boot \/ Tick \/ MouseDown \/ MouseMove \/ MouseUp

SpecPointer == InitPointer /\ [][NextPointer]_vars

\* The driver loop long enough for the color timer to reach its threshold,
\* on a host whose frames come 16 ms or 250 ms apart, with the mouse.
ColorHosts == {Host(TRUE, "webgl2", FALSE, TRUE, Formats16F, FALSE,
                    {16, 250}, {0})}

InitColors == InitWith(ColorHosts, {<<300, 150>>}, {0}, MaxTicks + 5, MaxEvents)

NextColors == Boot \/ Tick \/ MouseDown \/ MouseUp

SpecColors == InitColors /\ [][NextColors]_vars

\* The driver loop with the mouse and the touch screen together.
InitInput == InitWith(RunHosts, {<<300, 150>>}, {0}, MaxTicks - 1, MaxEvents + 1)

NextInput ==
  \/ Boot \/ Tick
  \/ MouseDown \/ MouseMove \/ MouseUp
  \/ TouchStart \/ TouchMove \/ TouchEnd

SpecInput == InitInput /\ [][NextInput]_vars

\* The driver loop with the keyboard: bursts requested and the pause toggle.
InitKeys ==
  InitWith(RunHosts, {<<300, 150>>}, 0 .. Len(RandomValues) - 1, MaxTicks,
           MaxEvents + 1)

NextKeys == Boot \/ Tick \/ KeyDown

SpecKeys == InitKeys /\ [][NextKeys]_vars

\* The driver loop and up to MaxFingers fingers on a touch screen.
InitTouch == InitWith(RunHosts, {<<300, 150>>}, {0}, MaxTicks - 1, MaxEvents + 2)

NextTouch == Boot \/ Tick \/ TouchStart \/ TouchMove \/ TouchEnd

SpecTouch == InitTouch /\ [][NextTouch]_vars

\* The driver loop with the events that make it draw: resizes, the pause
\* and burst keys, and splats requested through the control surface.
NextPasses ==
  \/ Boot \/ Tick \/ SeedTimer \/ HostResize \/ KeyDown
  \/ AddRandomSplats \/ SplatNormalized

SpecPasses == Init /\ [][NextPasses]_vars

\* Every host, then the control surface called by the host.
InitReady == InitWith(AllHosts, {<<300, 150>>}, {0}, 0, MaxEvents)

NextReady == Boot \/ SplatNormalized \/ AddRandomSplats

SpecReady == InitReady /\ [][NextReady]_vars

\* Desktop and mobile hosts over landscape, portrait and square surfaces.
GridSizes ==
  {<<800, 600>>, <<600, 800>>, <<391, 256>>, <<256, 391>>, <<300, 300>>,
   <<1000, 7>>}

GridHosts == {[h EXCEPT !.mobile = m] : h \in RunHosts, m \in BOOLEAN}

InitGrid ==
  InitSized(GridHosts, GridSizes, {<<300, 150>>, <<256, 391>>}, {0},
            MaxTicks, 0)

SpecGrid == InitGrid /\ [][NextBoot]_vars

\* Every host with every outcome of shader compilation and linking.
InitShader == InitWith(ShaderHosts, {<<300, 150>>}, {0}, MaxTicks, 0)

SpecShader == InitShader /\ [][NextBoot]_vars

\* ------------------------------------------------- divergence shader
\* The fluid state while a shader or the task list is examined on its own.
FluidIdle ==
  Loaded(RunHosts, {<<800, 600>>}, {<<300, 150>>}, {0}, 0, 0)

\* Velocity textures of w x h texels, texel (i, j) in column i from the
\* left and row j from the bottom.  Components are even so that the
\* halving of the shader is exact.
TextureSizes == {<<1, 1>>, <<3, 2>>, <<3, 3>>}

VelocityTextures ==
  UNION {
    {[w |-> d[1], h |-> d[2],
      vel |-> [p \in (0 .. d[1] - 1) \X (0 .. d[2] - 1) |->
                 [x |-> a[p[1]] + 2 * c * p[2], y |-> b[p[2]] + 2 * e * p[1]]]] :
       a \in [0 .. d[1] - 1 -> {-2, 2}], b \in [0 .. d[2] - 1 -> {-2, 2}],
       c \in {0, 1}, e \in {0, 1}} : d \in TextureSizes}

\* texture2D with CLAMP_TO_EDGE wrapping (lines 619-620).  Coordinates are
\* counted in half texels: the centre of texel (i, j) is (2i+1, 2j+1), the
\* texture spans 0 .. 2w by 0 .. 2h.
texture2D(tex, u, v) ==
  tex.vel[<<Max(0, Min(tex.w - 1, u \div 2)), Max(0, Min(tex.h - 1, v \div 2))>>]

\* A variant of divergenceShader without the four boundary replacements.
divergenceShaderClamped(tex, i, j) ==
  LET vUv == <<2 * i + 1, 2 * j + 1>>
      L == texture2D(tex, vUv[1] - 2, vUv[2]).x
      R == texture2D(tex, vUv[1] + 2, vUv[2]).x
      T == texture2D(tex, vUv[1], vUv[2] + 2).y
      B == texture2D(tex, vUv[1], vUv[2] - 2).y
  IN (R - L + T - B) \div 2

\* baseVertexShader (vL, vR, vT, vB are vUv moved by one texel) and
\* divergenceShader for the fragment of texel (i, j).
divergenceShader(tex, i, j) ==
  LET vUv == <<2 * i + 1, 2 * j + 1>>
      vL == <<vUv[1] - 2, vUv[2]>>
      vR == <<vUv[1] + 2, vUv[2]>>
      vT == <<vUv[1], vUv[2] + 2>>
      vB == <<vUv[1], vUv[2] - 2>>
      C == texture2D(tex, vUv[1], vUv[2])
      L == IF vL[1] < 0 THEN -C.x ELSE texture2D(tex, vL[1], vL[2]).x
      R == IF vR[1] > 2 * tex.w THEN -C.x ELSE texture2D(tex, vR[1], vR[2]).x
      T == IF vT[2] > 2 * tex.h THEN -C.y ELSE texture2D(tex, vT[1], vT[2]).y
      B == IF vB[2] < 0 THEN -C.y ELSE texture2D(tex, vB[1], vB[2]).y
  IN (R - L + T - B) \div 2

\* The divergence pass: one fragment per texel of the target.
DrawDivergence ==
  /\ ~texels.drawn
  /\ texels.w > 0
  /\ texels' = [texels EXCEPT
                  !.div = [p \in DOMAIN texels.vel |->
                             divergenceShader(texels, p[1], p[2])],
                  !.drawn = TRUE]
  /\ UNCHANGED <<fluid, todo>>

InitDivergence ==
  /\ FluidIdle
  /\ todo = NoTodo
  /\ \E tex \in VelocityTextures :
       texels = [w |-> tex.w, h |-> tex.h, vel |-> tex.vel, div |-> <<>>,
                 drawn |-> FALSE]

SpecDivergence == InitDivergence /\ [][DrawDivergence]_vars

\* ------------------------------------------------------ task rollover
\* A Date is an instant in hours since 2025-01-01T00:00Z.  A date string
\* 'YYYY-MM-DD' is the number of its day since 2025-01-01; -1 stands for
\* an absent scheduledDate, completedDate or rolloverFrom.
\* date.toISOString().split('T')[0]: the UTC day of the instant.
formatDateToString(date) == date \div 24

\* new Date('YYYY-MM-DD'): midnight UTC of that day.
parseDate(day) == day * 24

\* First day of each month of a 365-day year.
MonthStarts == <<0, 31, 59, 90, 120, 151, 181, 212, 243, 273, 304, 334>>

\* getFullYear, getMonth, getDate and getDay of an instant, which read the
\* host's local time (tz hours ahead of UTC); 2025-01-01 was a Wednesday,
\* 2025 and 2026 have 365 days.
localDate(date, tz) ==
  LET d == (date + tz) \div 24
      doy == d % 365
      month == Cardinality({m \in 1 .. 12 : MonthStarts[m] <= doy}) - 1
  IN [year |-> 2025 + (d \div 365), month |-> month,
      date |-> doy - MonthStarts[month + 1] + 1, day |-> (d + 3) % 7]

shouldRecurOnDate(task, baseDate, targetDate, tz) ==
  IF ~task.isRecurring \/ task.recurringType = "none" THEN FALSE
  ELSE
    LET interval == IF task.recurringInterval = 0 THEN 1
                    ELSE task.recurringInterval
        diffTime == targetDate - baseDate
        b == localDate(baseDate, tz)
        g == localDate(targetDate, tz)
        monthsDiff == (g.year - b.year) * 12 + (g.month - b.month)
        yearsDiff == g.year - b.year
    IN CASE task.recurringType = "daily" ->
              (diffTime \div 24) >= 0 /\ (diffTime \div 24) % interval = 0
         [] task.recurringType = "weekly" ->
              /\ g.day = b.day
              /\ (diffTime \div (24 * 7)) >= 0
              /\ (diffTime \div (24 * 7)) % interval = 0
         [] task.recurringType = "monthly" ->
              monthsDiff >= 0 /\ monthsDiff % interval = 0 /\ g.date = b.date
         [] task.recurringType = "yearly" ->
              /\ yearsDiff >= 0 /\ yearsDiff % interval = 0
              /\ g.month = b.month /\ g.date = b.date
         [] OTHER -> FALSE

\* new Date(y, m, d) of an instant's local calendar day: its local midnight.
localMidnight(date, tz) == ((date + tz) \div 24) * 24 - tz

\* new Date(year, month + 1, 0).getDate(): the last day of the month.
monthEndDate(month) ==
  (IF month = 11 THEN 365 ELSE MonthStarts[month + 2]) - MonthStarts[month + 1]

\* calculateNextOccurrence: targetDate when it is an occurrence, else null
\* (some = FALSE).
calculateNextOccurrence(baseDate, recurringType, interval, targetDate, tz) ==
  LET base == localMidnight(baseDate, tz)
      target == localMidnight(targetDate, tz)
      b == localDate(base, tz)
      g == localDate(target, tz)
      diffTime == target - base
      diffDays == (2 * diffTime + 24) \div 48
      diffWeeks == diffTime \div (24 * 7)
      monthsDiff == (g.year - b.year) * 12 + (g.month - b.month)
      yearsDiff == g.year - b.year
      null == [some |-> FALSE, date |-> 0]
      found == [some |-> TRUE, date |-> targetDate]
  IN IF target < base THEN null
     ELSE CASE recurringType = "daily" ->
                 IF diffDays >= 0 /\ diffDays % interval = 0 THEN found
                 ELSE null
            [] recurringType = "weekly" ->
                 IF g.day = b.day /\ diffWeeks >= 0 /\ diffWeeks % interval = 0
                 THEN found ELSE null
            [] recurringType = "monthly" ->
                 IF monthsDiff >= 0 /\ monthsDiff % interval = 0
                 THEN IF b.date = g.date THEN found
                      ELSE IF b.date > monthEndDate(g.month)
                              /\ g.date = monthEndDate(g.month)
                           THEN found ELSE null
                 ELSE null
            [] recurringType = "yearly" ->
                 IF g.month = b.month /\ g.date = b.date
                    /\ yearsDiff >= 0 /\ yearsDiff % interval = 0
                 THEN found ELSE null
            [] OTHER -> null

\* The filter of getIncompleteTasksForDate.
isIncompleteOn(task, targetDate, tz) ==
  \/ task.scheduledDate = formatDateToString(targetDate) /\ ~task.completed
  \/ /\ task.isRecurring /\ task.scheduledDate # -1 /\ ~task.completed
     /\ shouldRecurOnDate(task, parseDate(task.scheduledDate), targetDate, tz)

getIncompleteTasksForDate(tasks, targetDate, tz) ==
  SelectSeq(tasks, LAMBDA task : isIncompleteOn(task, targetDate, tz))

\* Math.floor(Math.random() * 1000), of which two values are followed.
RandomOffsets == {0, 1}

\* rolloverIncompleteTasks; `now` stands for new Date().toISOString() and
\* offsets[k] is the random offset drawn for the k-th new instance.
rolloverIncompleteTasks(tasks, fromDate, toDate, tz, now, offsets) ==
  LET incompleteTasks == getIncompleteTasksForDate(tasks, fromDate, tz)
      toDateString == formatDateToString(toDate)
      from == formatDateToString(fromDate)
      isIncomplete(task) ==
        \E i \in 1 .. Len(incompleteTasks) : incompleteTasks[i].id = task.id
      maxId == CHOOSE m \in {tasks[i].id : i \in 1 .. Len(tasks)} :
                 \A i \in 1 .. Len(tasks) : tasks[i].id <= m
      updatedTask(task) ==
        [task EXCEPT !.scheduledDate = toDateString, !.updatedAt = now,
                     !.rolloverFrom = from]
      newTaskInstance(task, k) ==
        [task EXCEPT !.id = maxId + offsets[k] + 1,
                     !.scheduledDate = toDateString, !.completed = FALSE,
                     !.completedDate = -1, !.createdAt = now,
                     !.updatedAt = now, !.rolloverFrom = from,
                     !.title = @ + 1]
      hit == {i \in 1 .. Len(tasks) : isIncomplete(tasks[i])}
      \* the position of tasks[i] among the recurring tasks rolled over
      nth(i) == Cardinality({j \in hit : j <= i /\ tasks[j].isRecurring})
      mapped == [i \in 1 .. Len(tasks) |->
                   IF i \in hit /\ ~tasks[i].isRecurring
                   THEN updatedTask(tasks[i]) ELSE tasks[i]]
      pushed == [i \in 1 .. Len(tasks) |->
                   IF tasks[i].isRecurring
                   THEN newTaskInstance(tasks[i], nth(i)) ELSE mapped[i]]
      order == SelectSeq([i \in 1 .. Len(tasks) |-> i], LAMBDA i : i \in hit)
      rolledOverTasks == [k \in 1 .. Len(order) |-> pushed[order[k]]]
      newRecurringInstances ==
        SelectSeq(rolledOverTasks,
                  LAMBDA task : task.isRecurring /\ task.rolloverFrom # -1)
  IN [updatedTasks |->
        mapped \o SelectSeq(newRecurringInstances,
                            LAMBDA task : \A i \in 1 .. Len(mapped) :
                                            mapped[i].id # task.id),
      rolledOverTasks |-> rolledOverTasks]

\* A task as the application stores it; title counts the ' (繰り越し)'
\* suffixes, recurringInterval 0 is an absent interval.
Task(id, type, interval, day, done) ==
  [id |-> id, title |-> 0, scheduledDate |-> day, completed |-> done,
   completedDate |-> IF done THEN day ELSE -1, isRecurring |-> type # "none",
   recurringType |-> type, recurringInterval |-> interval, createdAt |-> 0,
   updatedAt |-> 0, rolloverFrom |-> -1]

\* Tasks scheduled on 2025-01-31 or 2025-02-01, with distinct ids.
TasksWithId(id) ==
  {Task(id, type, IF type = "daily" THEN 2 ELSE 0, day, done) :
     type \in {"none", "daily", "weekly", "monthly", "yearly"},
     day \in {30, 31}, done \in BOOLEAN}

\* The instants passed as fromDate: 2025-01-31, 2025-02-07 and 2025-03-01
\* at 00:00Z and at 20:00Z; toDate is one day later.
FromDates == {parseDate(d) + h : d \in {30, 37, 59}, h \in {0, 20}}

\* The host calls rolloverIncompleteTasks and keeps updatedTasks as its
\* task list (TaskRolloverModal: the rolled tasks are added to today).
Rollover ==
  /\ todo.calls < MaxRollovers
  /\ Len(todo.tasks) > 0
  /\ \E fromDate \in FromDates :
       LET due == getIncompleteTasksForDate(todo.tasks, fromDate, todo.tz)
           n == Cardinality({i \in 1 .. Len(todo.tasks) :
                               /\ todo.tasks[i].isRecurring
                               /\ \E k \in 1 .. Len(due) :
                                    due[k].id = todo.tasks[i].id})
       IN \E offsets \in [1 .. n -> RandomOffsets] :
            LET r == rolloverIncompleteTasks(todo.tasks, fromDate,
                       fromDate + 24, todo.tz, todo.calls + 1, offsets)
            IN todo' = [todo EXCEPT
                          !.tasks = r.updatedTasks,
                          !.calls = @ + 1,
                          !.last = <<[fromDate |-> fromDate,
                                      toDate |-> fromDate + 24,
                                      tasks |-> todo.tasks,
                                      updatedTasks |-> r.updatedTasks,
                                      rolledOverTasks |-> r.rolledOverTasks]>>]
  /\ UNCHANGED <<fluid, texels>>

InitTasks ==
  /\ FluidIdle
  /\ texels = NoTexels
  /\ \E a \in TasksWithId(1), b \in TasksWithId(2), tz \in {0, 9} :
       todo = [tasks |-> <<a, b>>, last |-> <<>>, calls |-> 0, tz |-> tz]

SpecTasks == InitTasks /\ [][Rollover]_vars

\* The two recurrence deciders on one recurring task and one target day.
\* Base days: 2025-01-29 to 2025-02-01; target days from 2025-01-15 to
\* 2026-02-28.  A calendar day is passed as its UTC midnight (new
\* Date('YYYY-MM-DD')) or as its local midnight (new Date(y, m, d)).
BaseDays == {28, 29, 30, 31}
TargetDays == {14, 30, 37, 42, 44, 57, 58, 59, 88, 89, 119, 395, 423}

Decide ==
  /\ todo.calls < MaxRollovers
  /\ Len(todo.tasks) = 1
  /\ \E day \in TargetDays, off \in {0, todo.tz} :
       LET task == todo.tasks[1]
           baseDate == parseDate(task.scheduledDate) - off
           targetDate == parseDate(day) - off
       IN todo' = [todo EXCEPT
                     !.calls = @ + 1,
                     !.last = <<[task |-> task, baseDate |-> baseDate,
                                 targetDate |-> targetDate,
                                 should |-> shouldRecurOnDate(
                                   task, baseDate, targetDate, todo.tz),
                                 next |-> calculateNextOccurrence(
                                   baseDate, task.recurringType,
                                   IF task.recurringInterval = 0 THEN 1
                                   ELSE task.recurringInterval,
                                   targetDate, todo.tz)]>>]
  /\ UNCHANGED <<fluid, texels>>

InitRecur ==
  /\ FluidIdle
  /\ texels = NoTexels
  /\ \E type \in {"daily", "weekly", "monthly", "yearly"},
        interval \in 1 .. 3, day \in BaseDays, tz \in {0, 9} :
       todo = [tasks |-> <<Task(1, type, interval, day, FALSE)>>,
               last |-> <<>>, calls |-> 0, tz |-> tz]

SpecRecur == InitRecur /\ [][Decide]_vars

\* ================================================================ claims
\* Reading a handler's log l.
IsCall(l, i, fn) == l[i].op = "call" /\ l[i].fn = fn
Ran(l, fn) == \E i \in 1 .. Len(l) : IsCall(l, i, fn)
Updates(l) == {i \in 1 .. Len(l) : IsCall(l, i, "update")}
\* The handler was a tick of the driver loop after construction.
TickLog(l) == Len(l) > 0 /\ IsCall(l, 1, "update")
Draws(l, progs) ==
  {i \in 1 .. Len(l) : l[i].op = "draw" /\ l[i].prog \in progs}
IsSwap(l, i, field) ==
  i \in 1 .. Len(l) /\ l[i].op = "swap" /\ l[i].field = field
InitRuns == {i \in 1 .. Len(log) : log[i].op = "initFramebuffers"}

AllFields == DoubleFields \cup SingleFields
Exists(f, field) == IF f \in DoubleFields THEN field.oid # 0 ELSE field.id # 0
NewRes(e, f) == IF f = "dye" THEN e.dyeRes ELSE e.simRes
SameDims(e, f) ==
  /\ Exists(f, e.before[f])
  /\ e.before[f].width = NewRes(e, f).width
  /\ e.before[f].height = NewRes(e, f).height
Buffers(f, field) ==
  IF f \in DoubleFields THEN {field.fbo1, field.fbo2} ELSE {field}
FreshAndCleared(e, f) ==
  /\ \A b \in Buffers(f, e.after[f]) :
       /\ b.id > e.allocsBefore
       /\ b.ver = 0
       /\ b.width = NewRes(e, f).width
       /\ b.height = NewRes(e, f).height
  /\ Cardinality({b.id : b \in Buffers(f, e.after[f])})
       = IF f \in DoubleFields THEN 2 ELSE 1
Changed(e) == {f \in AllFields : ~SameDims(e, f)}
BuffersOf(fs) == 2 * Cardinality(fs \cap DoubleFields)
                   + Cardinality(fs \cap SingleFields)

\* C1: whenever initFramebuffers runs and a field's newly computed width and
\* height equal the existing field's, the field it leaves is the very same
\* object: the same buffers in the same read/write roles with the same
\* contents, and nothing is allocated for it (the number of buffers
\* allocated is exactly that of the fields whose dimensions differ).
C1_SameDimsKeepsField ==
  \A i \in InitRuns :
    /\ \A f \in AllFields :
         SameDims(log[i], f) => log[i].after[f] = log[i].before[f]
    /\ log[i].allocsAfter - log[i].allocsBefore = BuffersOf(Changed(log[i]))

\* A tick after the canvas box grew from 800x600 to 1600x1200: the canvas is
\* resized, initFramebuffers runs, every grid keeps its dimensions.
C1_Witness ==
  /\ phase = "running"
  /\ canvas.width = 1600
  /\ \E i \in InitRuns :
       /\ Changed(log[i]) = {}
       /\ log[i].before.velocity.fbo1.ver > 0
       /\ log[i].allocsAfter = log[i].allocsBefore

\* C2 as stated: whenever the dimensions of either grid differ from the
\* existing ones, all five fields are reallocated and start cleared.
C2_AnyChangeResetsAll ==
  \A i \in InitRuns :
    Changed(log[i]) # {} =>
      \A f \in AllFields : FreshAndCleared(log[i], f)

\* C2: whenever initFramebuffers runs, each field whose newly computed
\* dimensions differ from the existing field's (or that does not exist yet)
\* is reallocated, with both buffers of a DoubleField new, of the new
\* dimensions and cleared; a field whose dimensions are unchanged is kept
\* with its contents.
C2_ChangedFieldIsReset ==
  \A i \in InitRuns :
    \A f \in AllFields :
      IF SameDims(log[i], f)
      THEN log[i].after[f] = log[i].before[f]
      ELSE FreshAndCleared(log[i], f)

\* A tick after the box went from 800x600 to 801x600: the dye grid changes
\* (1365 to 1367 wide, or 683 to 684), the simulation grid does not.
C2_Witness ==
  /\ phase = "running"
  /\ \E i \in InitRuns :
       /\ Changed(log[i]) = {"dye"}
       /\ log[i].before.dye.fbo1.ver > 0
       /\ log[i].after.dye.fbo1.ver = 0
       /\ log[i].after.velocity = log[i].before.velocity

Jacobi == Draws(log, {"pressure"})

\* C3: in every un-paused tick (after construction) exactly
\* PRESSURE_ITERATIONS Jacobi passes run; each samples the divergence and
\* the buffer that is pressure.read (the one the previous pressure pass
\* wrote and the swap made readable), draws into the other buffer, and is
\* followed at once by one swap of the pressure field.
C3_JacobiPasses ==
  TickLog(log) =>
    /\ ~CONFIG.PAUSED => Cardinality(Jacobi) = CONFIG.PRESSURE_ITERATIONS
    /\ \A i \in Jacobi :
         /\ IsSwap(log, i + 1, "pressure")
         /\ ~IsSwap(log, i + 2, "pressure")
         /\ i - 2 \in Draws(log, {"clear", "pressure"})
         /\ IsSwap(log, i - 1, "pressure")
         /\ log[i].src = {divergence.id, log[i - 2].dst}
         /\ log[i].dst # log[i - 2].dst
         /\ {log[i].dst, log[i - 2].dst} = {pressure.fbo1.id, pressure.fbo2.id}
    /\ Jacobi # {} =>
         \E last \in Jacobi :
           /\ \A i \in Jacobi : i <= last
           /\ pressure.fbo1.id = log[last].dst

\* An un-paused tick has run its pressure solve.
C3_Witness ==
  /\ TickLog(log)
  /\ ~CONFIG.PAUSED
  /\ Cardinality(Jacobi) = PRESSURE_ITERATIONS
  /\ pressure.fbo1.ver > PRESSURE_ITERATIONS \div 2

\* C4: in every tick, dt is the clamp threshold when the time elapsed since
\* the previous reading of the clock is at least the threshold, and the
\* elapsed time when it is below; that dt is the one the stages of step use;
\* lastUpdateTime becomes the reading of this tick in either case.
TimestepClamp ==
  \A i \in Updates(log') :
    /\ log'[i].elapsed = log'[i].now - lastUpdateTime
    /\ log'[i].elapsed * 1000 >= DtClamp => log'[i].dt = DtClamp
    /\ log'[i].elapsed * 1000 < DtClamp => log'[i].dt = log'[i].elapsed * 1000
    /\ lastUpdateTime' = log'[i].now
    /\ \A j \in Draws(log', {"vorticity", "advection"}) :
         log'[j].dt = log'[i].dt

C4_TimestepClamp == [][TimestepClamp]_vars

\* A tick a quarter of a second after the previous one stepped with the
\* threshold.
C4_Witness ==
  /\ TickLog(log)
  /\ log[1].elapsed = 250
  /\ log[1].dt = DtClamp
  /\ \E j \in Draws(log, {"advection"}) : log[j].dt = DtClamp

\* C5 as stated: the dt computed by calcDeltaTime and handed to updateColors
\* and step is never negative, whatever Date.now() returns.
C5_DtNeverNegative ==
  /\ \A i \in Updates(log) : log[i].dt >= 0
  /\ \A j \in Draws(log, {"vorticity", "advection"}) : log[j].dt >= 0

FieldContents == <<velocity, dye, pressure>>

\* The handler injected a splat or allocated a buffer.
SplatOrAlloc(l) ==
  \E i \in 1 .. Len(l) :
    l[i].op = "alloc" \/ (l[i].op = "draw" /\ l[i].prog = "splat")

\* C6 as stated: while paused, the contents of the velocity, dye and
\* pressure fields are the same at the end of any two consecutive ticks,
\* whatever input arrives in between.
C6_PausedTicksIdentical ==
  (Len(tickSnaps) = 2 /\ tickSnaps[1].paused /\ tickSnaps[2].paused) =>
    /\ tickSnaps[1].velocity = tickSnaps[2].velocity
    /\ tickSnaps[1].dye = tickSnaps[2].dye
    /\ tickSnaps[1].pressure = tickSnaps[2].pressure

\* C6: while paused, a tick or any other handler that injects no splat and
\* reallocates no field leaves the velocity, dye and pressure fields (their
\* buffers, roles and contents) exactly as they were; so two consecutive
\* paused ticks with no splat and no resize in or between them end with
\* identical contents.
PausedStepKeepsFields ==
  (phase = "running" /\ CONFIG.PAUSED /\ CONFIG'.PAUSED /\ ~SplatOrAlloc(log'))
    => FieldContents' = FieldContents

C6_PausedWithoutSplatIdentical == [][PausedStepKeepsFields]_vars

\* Two consecutive paused ticks, the second injecting nothing, after the
\* fields have been stepped at least once.
C6_Witness ==
  /\ TickLog(log)
  /\ ~SplatOrAlloc(log)
  /\ Len(tickSnaps) = 2
  /\ tickSnaps[1].paused
  /\ tickSnaps[2].paused
  /\ tickSnaps[1].velocity = tickSnaps[2].velocity
  /\ velocity.fbo1.ver > 0

\* C7: after construction every tick runs applyInputs and render, and runs
\* step iff PAUSED is false at that tick; pause() leaves PAUSED true,
\* resume() false, a KeyP keydown its negation, and nothing else changes
\* it; isPaused() returns it.
PauseControl ==
  phase = "running" =>
    /\ TickLog(log') =>
         /\ Ran(log', "applyInputs")
         /\ Ran(log', "render")
         /\ Draws(log', {"display"}) # {}
         /\ Ran(log', "step") <=> ~CONFIG.PAUSED
    /\ CONFIG'.PAUSED =
         IF IsCall(log', 1, "pause") THEN TRUE
         ELSE IF IsCall(log', 1, "resume") THEN FALSE
         ELSE IF IsCall(log', 1, "keydown") /\ log'[1].code = "KeyP"
         THEN ~CONFIG.PAUSED
         ELSE CONFIG.PAUSED
    /\ IsCall(log', 1, "isPaused") =>
         /\ log'[2].op = "return"
         /\ log'[2].value = CONFIG.PAUSED

C7_PauseSuspendsOnlyStep == [][PauseControl]_vars

\* A tick taken while paused: inputs applied, the frame drawn, no step.
C7_Witness ==
  /\ TickLog(log)
  /\ CONFIG.PAUSED
  /\ Ran(log, "applyInputs")
  /\ Ran(log, "render")
  /\ ~Ran(log, "step")

Gens == {i \in 1 .. Len(log) : log[i].op = "gen"}
JitterBound == (3 * HueTurn) \div 100

\* C8: the k-th call of generateColor since startup, whoever makes it, uses
\* palette entry k mod 4: the calls recorded by a handler are numbered
\* consecutively up to the number of calls made so far, each picks entry
\* k mod 4 and moves its hue by a jitter of at most 0.03 of a turn.
C8_RoundRobinPalette ==
  \A i \in Gens :
    /\ log[i].k = genCalls - Cardinality({j \in Gens : j >= i})
    /\ log[i].color.pick = log[i].k % PaletteLength
    /\ Abs(log[i].color.jitter) <= JitterBound
    /\ log[i].color.hue =
         (PALETTE[(log[i].k % PaletteLength) + 1] + log[i].color.jitter)
           % HueTurn

\* A pointer press draws its color after the palette has gone round.
C8_Witness ==
  /\ Len(log) > 0
  /\ IsCall(log, 1, "mousedown")
  /\ \E i \in Gens : log[i].k > PaletteLength /\ log[i].color.jitter # 0

\* C9: when the canvas element is missing or no WebGL context is obtained,
\* the script warns and stops without an exception: no frame is requested
\* and no tick runs, no timer and no listener is registered,
\* window.FluidField stays unset and 'fluid-ready' is not dispatched.
C9_ContextUnavailableDeclines ==
  ((~env.canvasFound \/ env.glKind = "none") /\ phase # "load") =>
    /\ phase = "declined"
    /\ thrown = "none"
    /\ \E i \in 1 .. Len(log) : log[i].op = "warn"
    /\ rafPending = 0
    /\ ~Ran(log, "update")
    /\ tickSnaps = <<>>
    /\ ~timerPending
    /\ ~listeners
    /\ ~fluidField
    /\ readyEvents = 0
    /\ allocs = 0

\* The script has run on a host with a canvas and no WebGL context.
C9_Witness ==
  /\ env.canvasFound
  /\ env.glKind = "none"
  /\ phase = "declined"
  /\ log = <<[op |-> "warn", msg |-> "WebGL context not available"]>>

\* C10 as stated: on every host that yields a context, whatever optional
\* capabilities are missing, negotiation returns a format for each of the
\* RGBA, RG and R fields, initFramebuffers succeeds and the script starts
\* without an exception.
C10_EveryContextStarts ==
  (env.canvasFound /\ env.glKind # "none" /\ phase # "load") =>
    /\ phase = "running"
    /\ thrown = "none"
    /\ ext.formatRGBA # NoFormat
    /\ ext.formatRG # NoFormat
    /\ ext.formatR # NoFormat
    /\ dye.oid # 0
    /\ pressure.oid # 0

\* The handler was the script body and it reached its first update().
BootLog(l) == Len(l) > 0 /\ ~TickLog(l) /\ Ran(l, "update")
Warned(l) == \E i \in 1 .. Len(l) : l[i].op = "warn"

\* C11 as stated: the update() called by the script body before the
\* programs are bindable issues no GPU command in step and render, logs a
\* warning, throws nothing and schedules the next tick; the first tick
\* after construction runs step and render.
C11_GuardedTickWarns ==
  /\ BootLog(log) =>
       /\ Draws(log, {"curl", "vorticity", "divergence", "clear", "pressure",
                      "gradientSubtract", "advection", "color", "display"}) = {}
       /\ Warned(log)
       /\ thrown = "none"
       /\ rafPending = 1
  /\ (TickLog(log) /\ ~CONFIG.PAUSED) => (Ran(log, "step") /\ Ran(log, "render"))

UsableContext == env.canvasFound /\ getWebGLContext.gl

\* C12: 'fluid-ready' is dispatched exactly once on a run that starts and
\* never on a run that declines or throws; when it has been dispatched the
\* context and formats are negotiated, the programs bindable, the fields
\* allocated, the listeners registered and window.FluidField set; a
\* control-surface call made from then on is never turned away by the guard
\* of splat: splatNormalized draws into velocity and dye.
C12_ReadyOnceAfterConstruction ==
  /\ readyEvents = IF phase = "running" THEN 1 ELSE 0
  /\ fluidField <=> readyEvents = 1
  /\ readyEvents = 1 =>
       /\ thrown = "none"
       /\ Cur.bind
       /\ listeners
       /\ ext.formatRGBA # NoFormat /\ ext.formatRG # NoFormat
       /\ ext.formatR # NoFormat
       /\ \A f \in AllFields : Exists(f, Fields(Cur)[f])
  /\ (Len(log) > 0 /\ IsCall(log, 1, "splatNormalized")) =>
       /\ ~Warned(log)
       /\ Cardinality(Draws(log, {"splat"})) = 2
  /\ (Len(log) > 0 /\ IsCall(log, 1, "addRandomSplats")) => ~Warned(log)

\* The first control-surface call after the signal has injected its splat.
C12_Witness ==
  /\ readyEvents = 1
  /\ eventsLeft = MaxEvents - 1
  /\ Len(log) > 0
  /\ IsCall(log, 1, "splatNormalized")
  /\ Cardinality(Draws(log, {"splat"})) = 2
  /\ dye.fbo1.ver = 1

\* C13: when a shader does not compile or a program does not link on a
\* host whose context was obtained, the script body throws the backend's
\* info log; no update() runs, no frame is requested, no field is
\* allocated, no listener is registered, window.FluidField stays unset and
\* 'fluid-ready' is not dispatched.  A running engine never holds a thrown
\* diagnostic: the error cannot arise in a tick.
C13_ShaderFailureIsFatal ==
  /\ (UsableContext /\ env.shaders # "ok" /\ phase # "load") =>
       /\ phase = "threw"
       /\ thrown = (IF env.shaders = "compile" THEN "ShaderInfoLog"
                    ELSE "ProgramInfoLog")
       /\ ~Ran(log, "update")
       /\ rafPending = 0
       /\ tickSnaps = <<>>
       /\ allocs = 0
       /\ \A f \in AllFields : ~Exists(f, Fields(Cur)[f])
       /\ ~timerPending
       /\ ~listeners
       /\ ~fluidField
       /\ readyEvents = 0
  /\ phase = "running" => (thrown = "none" /\ env.shaders = "ok")

\* The script has run on a WebGL2 host whose linker rejects a program.
C13_Witness ==
  /\ env.glKind = "webgl2"
  /\ env.shaders = "link"
  /\ phase = "threw"
  /\ thrown = "ProgramInfoLog"

\* Reading the log of one addRandomSplats(n) call.
SplatDraws(l, field) ==
  {i \in Draws(l, {"splat"}) : l[i].field = field}
SplatColors(l) == {i \in 1 .. Len(l) : l[i].op = "splatColor"}
AllFieldContents == <<velocity, dye, pressure, divergence, curl>>

AddRandomSplatsExact ==
  (Len(log') > 1 /\ IsCall(log', 1, "addRandomSplats")) =>
    LET n == log'[2].amount
        m == Max(n, 0)
        gens == {i \in 1 .. Len(log') : log'[i].op = "gen"}
    IN /\ IsCall(log', 2, "multipleSplats")
       /\ Cardinality(gens) = m
       /\ paletteIndex' = paletteIndex + m
       /\ Cardinality(SplatDraws(log', "velocity")) = m
       /\ Cardinality(SplatDraws(log', "dye")) = m
       /\ Cardinality(SplatColors(log')) = m
       \* the j-th splat carries the color of the j-th generateColor call
       /\ \A c \in SplatColors(log') :
            \E g \in gens :
              /\ log'[g].color = log'[c].color
              /\ g < c
              /\ Cardinality({x \in gens : x <= g}) =
                   Cardinality({x \in SplatColors(log') : x <= c})
       /\ (n <= 0 => AllFieldContents' = AllFieldContents)
       /\ (n > 0 => velocity' # velocity /\ dye' # dye)
       /\ <<pressure, divergence, curl>>' = <<pressure, divergence, curl>>

\* C14: addRandomSplats(n) issues exactly n splats, each with the color of
\* one fresh generateColor call: the palette index advances by n and each
\* splat draws once into velocity and once into dye; for n <= 0 nothing is
\* generated or drawn and no field changes.
C14_AddRandomSplatsExact == [][AddRandomSplatsExact]_vars

\* addRandomSplats(2) has injected two splats with two fresh colors.
C14_Witness ==
  /\ Len(log) > 1
  /\ IsCall(log, 1, "addRandomSplats")
  /\ log[2].amount = 2
  /\ Cardinality(SplatDraws(log, "dye")) = 2
  /\ Cardinality(Gens) = 2
  /\ paletteIndex >= 2

\* round(r) on the short axis, round(r * long / short) on the long axis,
\* the larger value on width exactly when w > h.
LongAxisRes(w, h, r) ==
  LET long == RoundDiv(r * Max(w, h), Min(w, h))
  IN IF w > h THEN [width |-> long, height |-> r]
              ELSE [width |-> r, height |-> long]

\* C15 as stated: every run of initFramebuffers sizes the sim grid and the
\* dye grid as round(r) on the short axis and round(r * max(w,h)/min(w,h))
\* on the long axis of the w x h drawing buffer, the dye, velocity, curl,
\* divergence and pressure fields are allocated with these dimensions, and
\* an 800x600 surface with sim resolution 128 gets a 171x128 sim grid.
C15_GridFollowsLongAxis ==
  \A i \in InitRuns :
    LET e == log[i]
        w == e.canvas[1]
        h == e.canvas[2]
    IN /\ e.simRes = LongAxisRes(w, h, CONFIG.SIM_RESOLUTION)
       /\ e.dyeRes = LongAxisRes(w, h, CONFIG.DYE_RESOLUTION)
       /\ \A f \in AllFields :
            /\ e.after[f].width = NewRes(e, f).width
            /\ e.after[f].height = NewRes(e, f).height
       /\ (w = 800 /\ h = 600 /\ CONFIG.SIM_RESOLUTION = 128) =>
            e.simRes = [width |-> 171, height |-> 128]

\* The divergence of texel (i, j) by neighbour indices, a missing
\* neighbour replaced by the negated centre component.
MirroredDivergence(tex, i, j) ==
  LET C == tex.vel[<<i, j>>]
      L == IF i = 0 THEN -C.x ELSE tex.vel[<<i - 1, j>>].x
      R == IF i = tex.w - 1 THEN -C.x ELSE tex.vel[<<i + 1, j>>].x
      B == IF j = 0 THEN -C.y ELSE tex.vel[<<i, j - 1>>].y
      T == IF j = tex.h - 1 THEN -C.y ELSE tex.vel[<<i, j + 1>>].y
  IN ((R - L) + (T - B)) \div 2

\* C16: for every texel the divergence pass writes
\* 0.5 * ((R - L) + (T - B)), R/L the x-velocities of the right/left
\* neighbours and T/B the y-velocities of the top/bottom neighbours; on the
\* left (right) edge the missing L (R) is the negated centre x-velocity, on
\* the bottom (top) edge the missing B (T) is the negated centre
\* y-velocity; interior texels use their four neighbours only.
C16_MirroredDivergence ==
  texels.drawn =>
    \A p \in DOMAIN texels.vel :
      texels.div[p] = MirroredDivergence(texels, p[1], p[2])

\* A 3x3 texture has been drawn: the replacement changed the value of a
\* corner texel and played no part in the nonzero value of the interior one.
C16_Witness ==
  /\ texels.drawn
  /\ texels.w = 3 /\ texels.h = 3
  /\ texels.div[<<1, 1>>] # 0
  /\ texels.div[<<0, 2>>] # divergenceShaderClamped(texels, 0, 2)
  /\ texels.div[<<1, 1>>] = divergenceShaderClamped(texels, 1, 1)

\* Reading the record of the last rolloverIncompleteTasks call.
Due(task, c) == isIncompleteOn(task, c.fromDate, todo.tz)
Added(c) == SubSeq(c.updatedTasks, Len(c.tasks) + 1, Len(c.updatedTasks))
DueRecurring(c) ==
  SelectSeq(c.tasks, LAMBDA task : Due(task, c) /\ task.isRecurring)

\* C17 as stated: after rolloverIncompleteTasks(tasks, from, to) every
\* non-recurring incomplete task scheduled on `from` has scheduledDate = to
\* and rolloverFrom = from; every recurring incomplete task occurring on
\* `from` is unchanged and has one new uncompleted instance with
\* scheduledDate = to and rolloverFrom = from appended to updatedTasks; every
\* other task is unchanged, nothing else is appended, and rolledOverTasks
\* holds exactly the moved tasks and the new instances.
C17_RolloverMovesDueTasks ==
  \A n \in 1 .. Len(todo.last) :
    LET c == todo.last[n]
        from == formatDateToString(c.fromDate)
        to == formatDateToString(c.toDate)
        moved == {i \in 1 .. Len(c.tasks) :
                    Due(c.tasks[i], c) /\ ~c.tasks[i].isRecurring}
    IN /\ Len(c.updatedTasks) >= Len(c.tasks)
       /\ \A i \in 1 .. Len(c.tasks) :
            IF i \in moved
            THEN c.updatedTasks[i] =
                   [c.tasks[i] EXCEPT !.scheduledDate = to,
                                      !.rolloverFrom = from,
                                      !.updatedAt = c.updatedTasks[i].updatedAt]
            ELSE c.updatedTasks[i] = c.tasks[i]
       /\ Len(Added(c)) = Len(DueRecurring(c))
       /\ \A k \in 1 .. Len(Added(c)) :
            Added(c)[k] =
              [DueRecurring(c)[k] EXCEPT
                 !.id = Added(c)[k].id, !.title = @ + 1,
                 !.scheduledDate = to, !.rolloverFrom = from,
                 !.completed = FALSE, !.completedDate = -1,
                 !.createdAt = Added(c)[k].createdAt,
                 !.updatedAt = Added(c)[k].updatedAt]
       /\ Len(c.rolledOverTasks) = Cardinality(moved) + Len(Added(c))
       /\ \A k \in 1 .. Len(c.rolledOverTasks) :
            \/ \E i \in moved : c.rolledOverTasks[k] = c.updatedTasks[i]
            \/ \E j \in 1 .. Len(Added(c)) : c.rolledOverTasks[k] = Added(c)[j]

\* The solver passes of a handler, in the order drawn: program and target.
SolverPrograms ==
  {"curl", "vorticity", "divergence", "clear", "pressure", "gradientSubtract",
   "advection"}
SolverDraws(l) ==
  SelectSeq(l, LAMBDA e : e.op = "draw" /\ e.prog \in SolverPrograms)
StepPasses(l) ==
  [k \in 1 .. Len(SolverDraws(l)) |->
     <<SolverDraws(l)[k].prog, SolverDraws(l)[k].field>>]
FixedOrder(n) ==
  <<<<"curl", "curl">>, <<"vorticity", "velocity">>,
    <<"divergence", "divergence">>, <<"clear", "pressure">>>>
  \o [k \in 1 .. n |-> <<"pressure", "pressure">>]
  \o <<<<"gradientSubtract", "velocity">>, <<"advection", "velocity">>,
       <<"advection", "dye">>>>

\* C18: every un-paused tick (after construction) draws the solver passes
\* in the order curl, vorticity confinement, divergence, pressure
\* warm-start, PRESSURE_ITERATIONS Jacobi passes, gradient subtraction,
\* velocity advection, dye advection, each once and all after step is
\* entered and before render; the warm-start samples the current pressure
\* instead of starting from zero; the passes that take a timestep all get
\* the dt of the tick.  A paused tick draws none of them.
C18_FixedPassOrder ==
  TickLog(log) =>
    /\ ~CONFIG.PAUSED =>
         /\ StepPasses(log) = FixedOrder(CONFIG.PRESSURE_ITERATIONS)
         /\ \A i \in Draws(log, SolverPrograms) :
              /\ \E c \in 1 .. i - 1 : IsCall(log, c, "step")
              /\ \E c \in i + 1 .. Len(log) : IsCall(log, c, "render")
              /\ log[i].prog \in {"vorticity", "advection"} =>
                   log[i].dt = log[1].dt
              /\ log[i].prog = "clear" =>
                   /\ Cardinality(log[i].src) = 1
                   /\ log[i].src \subseteq {pressure.fbo1.id, pressure.fbo2.id}
                   /\ log[i].dst \notin log[i].src
         /\ Cardinality({c \in 1 .. Len(log) : IsCall(log, c, "step")}) = 1
    /\ CONFIG.PAUSED => StepPasses(log) = <<>>

\* An un-paused tick with a positive timestep has run all its passes on
\* fields that earlier ticks had already written.
C18_Witness ==
  /\ TickLog(log)
  /\ ~CONFIG.PAUSED
  /\ log[1].dt > 0
  /\ Len(StepPasses(log)) = PRESSURE_ITERATIONS + 7
  /\ StepPasses(log)[2] = <<"vorticity", "velocity">>
  /\ dye.fbo1.ver + dye.fbo2.ver > 1

\* The double fields as the handler left them.
DoubleNow(f) ==
  CASE f = "velocity" -> velocity [] f = "dye" -> dye [] OTHER -> pressure
FieldDraws ==
  {i \in 1 .. Len(log) : log[i].op = "draw" /\ log[i].field # "screen"}

\* C19: the read and the write buffer of every allocated DoubleField are
\* two distinct buffers in every reachable state; every pass of step and
\* splat that draws into X.write draws into the buffer that is X.write at
\* that moment and samples neither it nor the write buffer of any other
\* DoubleField; the curl and divergence passes draw into their single
\* field and sample the velocity only.
C19_NoPassReadsItsTarget ==
  /\ \A f \in DoubleFields :
       Exists(f, DoubleNow(f)) =>
         /\ DoubleNow(f).fbo1.id # DoubleNow(f).fbo2.id
         /\ DoubleNow(f).fbo1.id # 0 /\ DoubleNow(f).fbo2.id # 0
  /\ \A i \in FieldDraws :
       /\ log[i].dst \notin log[i].src
       /\ log[i].src \cap log[i].writes = {}
       /\ Cardinality(log[i].writes) = Cardinality(DoubleFields)
       /\ log[i].field \in DoubleFields =>
            /\ log[i].dst \in log[i].writes
            /\ log[i].dst \in {DoubleNow(log[i].field).fbo1.id,
                               DoubleNow(log[i].field).fbo2.id}
       /\ log[i].prog \in {"curl", "divergence"} =>
            /\ log[i].field = log[i].prog
            /\ log[i].dst = (IF log[i].prog = "curl" THEN curl.id
                             ELSE divergence.id)
            /\ Cardinality(log[i].src) = 1
            /\ log[i].src \subseteq {velocity.fbo1.id, velocity.fbo2.id}

\* An un-paused tick has run on a velocity field whose buffers have traded
\* places since they were allocated, after a splat had written them.
C19_Witness ==
  /\ TickLog(log)
  /\ Draws(log, {"gradientSubtract"}) # {}
  /\ velocity.fbo1.id > velocity.fbo2.id
  /\ \E i \in Draws(log, {"splat"}) : log[i].field = "dye"

\* Swaps and draws of a field recorded by the handler.  Between a draw and
\* its swap the log holds at most the color note of a dye splat.
SwapsOf(f) == {j \in 1 .. Len(log) : IsSwap(log, j, f)}
DrawsInto(f) == {i \in FieldDraws : log[i].field = f}
SwapAfter(i) ==
  IF i < Len(log) /\ log[i + 1].op = "splatColor" THEN i + 2 ELSE i + 1
DrawBefore(j) ==
  IF j > 1 /\ log[j - 1].op = "splatColor" THEN j - 2 ELSE j - 1
StepRan == IF Ran(log, "step") THEN 1 ELSE 0
\* The draws D into field f and the swaps S of f pair up one to one, each
\* swap making the buffer just written the read buffer.
PairedSwaps(f, D, S) ==
  /\ \A i \in D :
       /\ IsSwap(log, SwapAfter(i), f)
       /\ ~IsSwap(log, SwapAfter(i) + 1, f)
       /\ log[SwapAfter(i)].read = log[i].dst
  /\ \A j \in S : DrawBefore(j) \in D
  /\ Cardinality(S) = Cardinality(D)
  /\ S # {} =>
       \E last \in S :
         /\ \A j \in S : j <= last
         /\ DoubleNow(f).fbo1.id = log[last].read

\* C20: every draw into X.write is followed, before any other draw, by
\* exactly one swap of X, after which X.read is the buffer just written, so
\* that every later pass samples the most recently written buffer; an
\* un-paused tick swaps velocity 3 times, pressure
\* PRESSURE_ITERATIONS + 1 times and dye once in step, and every splat
\* swaps velocity and dye once each; divergence and curl are never swapped.
C20_OneSwapPerWrite ==
  /\ \A f \in DoubleFields :
       PairedSwaps(f, DrawsInto(f), SwapsOf(f))
  /\ \A i \in 1 .. Len(log) :
       /\ log[i].op = "swap" => log[i].field \in DoubleFields
       /\ log[i].op = "draw" => log[i].src \cap log[i].writes = {}
  /\ Cardinality(SwapsOf("velocity")) =
       3 * StepRan + Cardinality(SplatDraws(log, "velocity"))
  /\ Cardinality(SwapsOf("dye")) =
       StepRan + Cardinality(SplatDraws(log, "dye"))
  /\ Cardinality(SwapsOf("pressure")) =
       (CONFIG.PRESSURE_ITERATIONS + 1) * StepRan
  /\ Cardinality(SplatDraws(log, "velocity")) = Cardinality(SplatDraws(log, "dye"))
  /\ (TickLog(log) /\ ~CONFIG.PAUSED) => StepRan = 1

\* An un-paused tick has injected splats and then stepped: velocity was
\* swapped more than three times, pressure PRESSURE_ITERATIONS + 1 times.
C20_Witness ==
  /\ TickLog(log)
  /\ StepRan = 1
  /\ Cardinality(SwapsOf("velocity")) > 3
  /\ Cardinality(SwapsOf("dye")) > 1
  /\ Cardinality(SwapsOf("pressure")) = PRESSURE_ITERATIONS + 1

\* The positions of the calls of fn in the log l.
Calls(l, fn) == {i \in 1 .. Len(l) : IsCall(l, i, fn)}

\* The phases of one tick: A, S, R and Q are the positions of the calls of
\* applyInputs, step, render and requestAnimationFrame in its log l.
TickPhases(l, A, S, R, Q) ==
  /\ Cardinality(A) = 1 /\ Cardinality(R) = 1 /\ Cardinality(S) <= 1
  /\ Q = {Len(l)}
  /\ \A a \in A, r \in R : a < r /\ \A s \in S : a < s /\ s < r
  /\ \A i \in 1 .. Len(l) :
       /\ (l[i].op \in {"alloc", "initFramebuffers"}
           \/ IsCall(l, i, "initFramebuffers")) => \A a \in A : i < a
       /\ l[i].op = "draw" =>
            CASE l[i].prog = "splat" ->
                   /\ \A a \in A : a < i
                   /\ \A s \in S : i < s
                   /\ \A r \in R : i < r
              [] l[i].prog \in SolverPrograms ->
                   /\ \E s \in S : s < i
                   /\ \A r \in R : i < r
              [] OTHER -> \A r \in R : r < i

\* C21: in every tick (after construction) the resize check and any
\* reallocation by initFramebuffers come first, then the input and splat
\* injection, then step (when not paused), then render, and the request
\* for the next frame last; one successor is requested per tick, so that
\* exactly one tick is pending while the engine runs.
C21_TickPhaseOrder ==
  /\ TickLog(log) =>
       /\ TickPhases(log, Calls(log, "applyInputs"), Calls(log, "step"),
                     Calls(log, "render"), Calls(log, "requestAnimationFrame"))
       /\ Cardinality(Calls(log, "update")) = 1
       /\ ~CONFIG.PAUSED <=> Calls(log, "step") # {}
  /\ phase = "running" => rafPending = 1
  /\ phase # "running" => rafPending = 0

\* A tick has reallocated the fields after a resize, injected a splat
\* burst and stepped.
C21_Witness ==
  /\ TickLog(log)
  /\ InitRuns # {}
  /\ \E i \in InitRuns : log[i].allocsAfter > log[i].allocsBefore
  /\ Draws(log, {"splat"}) # {}
  /\ Ran(log, "step")
  /\ rafPending = 1

\* The solver draws D of one tick: the last one is the dye advection, drawn
\* with the dye viewport from the velocity that the draw before it wrote;
\* all the others are drawn with the velocity viewport.
DyeAdvectionLast(D) ==
  /\ Len(D) >= 2
  /\ D[Len(D)].prog = "advection" /\ D[Len(D)].field = "dye"
  /\ D[Len(D)].vp = <<dye.width, dye.height>>
  /\ D[Len(D) - 1].prog = "advection" /\ D[Len(D) - 1].field = "velocity"
  /\ D[Len(D) - 1].dst \in D[Len(D)].src
  /\ D[Len(D) - 1].dst = velocity.fbo1.id
  /\ velocity.fbo2.id \notin D[Len(D)].src
  /\ \A k \in 1 .. Len(D) - 1 :
       /\ D[k].vp = <<velocity.width, velocity.height>>
       /\ D[k].vp # <<dye.width, dye.height>>
       /\ D[k].field # "dye"

\* C22: in every un-paused tick the dye advection samples the velocity
\* written by the velocity advection of the same tick (velocity.read after
\* the third swap) and is the only solver pass drawn with the viewport of
\* the dye field; every earlier pass is drawn with the viewport of the
\* velocity field.
C22_DyeAdvectsWithNewVelocity ==
  (TickLog(log) /\ ~CONFIG.PAUSED) =>
    /\ DyeAdvectionLast(SolverDraws(log))
    /\ Cardinality(SwapsOf("velocity")) - Cardinality(SplatDraws(log, "velocity")) = 3

\* An un-paused tick on a resized surface has advected the dye on its own,
\* larger grid.
C22_Witness ==
  /\ TickLog(log)
  /\ ~CONFIG.PAUSED
  /\ canvas.width = 1600
  /\ dye.width > velocity.width
  /\ \E i \in Draws(log, {"advection"}) :
       log[i].field = "dye" /\ log[i].vp = <<dye.width, dye.height>>

\* The splats issued for pointer i by the handler whose log is l.
PointerSplats(l, i) ==
  {k \in 1 .. Len(l) : l[k].op = "splatPointer" /\ l[k].pointer = i}
MoveLog(l) ==
  Len(l) > 0 /\ (IsCall(l, 1, "mousemove") \/ IsCall(l, 1, "touchmove"))
PressLog(l) ==
  Len(l) > 0 /\ (IsCall(l, 1, "mousedown") \/ IsCall(l, 1, "touchstart"))

MovedConsumedOnce ==
  /\ TickLog(log') =>
       /\ Len(pointers') = Len(pointers)
       /\ \A i \in 1 .. Len(pointers) :
            /\ Cardinality(PointerSplats(log', i)) =
                 (IF pointers[i].moved THEN 1 ELSE 0)
            /\ ~pointers'[i].moved
       /\ Cardinality(Draws(log', {"splat"})) =
            2 * Cardinality({i \in 1 .. Len(pointers) : pointers[i].moved})
  /\ ~TickLog(log') =>
       \A i \in 1 .. Len(pointers') : PointerSplats(log', i) = {}
  /\ \A i \in 1 .. Len(pointers') :
       (pointers'[i].moved /\ (i > Len(pointers) \/ ~pointers[i].moved)) =>
         MoveLog(log')
  /\ (Len(log') > 0 /\ IsCall(log', 1, "mousedown")) =>
       /\ ~pointers'[1].moved
       /\ pointers'[1].deltaX[1] = 0 /\ pointers'[1].deltaY[1] = 0
       /\ pointers'[1].down

\* C23: a tick issues exactly one splat for each pointer whose moved flag
\* is set when applyInputs runs and none for the others, and leaves every
\* moved flag cleared; only a move event sets the flag again, so later
\* ticks issue nothing for the pointer until then, and several move events
\* between two ticks still give one splat; a press clears moved and zeroes
\* the delta.
C23_MovedConsumedOncePerTick == [][MovedConsumedOnce]_vars

\* After a press, two moves and a release, one tick has issued one splat
\* for the mouse pointer.
C23_Witness ==
  /\ TickLog(log)
  /\ eventsLeft = MaxEvents - 2
  /\ Cardinality(PointerSplats(log, 1)) = 1
  /\ ~pointers[1].down
  /\ ~pointers[1].moved
  /\ pointers[1].prevTexcoordX # pointers[1].texcoordX

\* The fields of a pointer slot that belong to the finger bound to it.
FingerState(p) ==
  [down |-> p.down, id |-> p.id, color |-> p.color,
   deltaX |-> p.deltaX, deltaY |-> p.deltaY]
SlotsOf(ps, id) == {i \in 2 .. Len(ps) : ps[i].id = id}
TouchLog(l, fn) == Len(l) > 0 /\ IsCall(l, 1, fn)
\* The fingers whose position differs between two touch lists.
MovedFingers(t, u) ==
  {t[k].identifier : k \in {j \in 1 .. Len(t) : Len(u) = Len(t) /\ u[j] # t[j]}}

TouchIndependence ==
  /\ TouchLog(log', "touchstart") =>
       \A g \in TouchIds(env.touches) : \A i \in SlotsOf(pointers, g) :
          FingerState(pointers'[i]) = FingerState(pointers[i])
  /\ TouchLog(log', "touchend") =>
       \A g \in TouchIds(env'.touches) : \A i \in SlotsOf(pointers, g) :
          FingerState(pointers'[i]) = FingerState(pointers[i])
  /\ TouchLog(log', "touchmove") =>
       \A g \in MovedFingers(env.touches, env'.touches) :
          \E i \in SlotsOf(pointers', g) :
             pointers'[i].down /\ pointers'[i].moved

\* C24: pressing or releasing one finger leaves the down flag, id, color
\* and deltas of every other finger's slot as they were, and a move of a
\* finger that is down is recorded in the slot that carries its identifier.
C24_TouchesIndependent == [][TouchIndependence]_vars

\* Negotiation ended without linear filtering of the render targets.
Degraded == phase # "load" /\ getWebGLContext.gl /\ env.canvasFound
            /\ ~ext.supportLinearFiltering
ShortSide(res) == Min(res.width, res.height)
AllocatedAt(sim, dyeTier) ==
  \A i \in InitRuns :
     /\ ShortSide(log[i].simRes) = sim
     /\ ShortSide(log[i].dyeRes) = dyeTier
NegotiationFrozen == [][phase # "load" => ext' = ext]_vars

\* C25 as stated: on the degraded path shading is disabled and both the
\* simulation resolution and the dye resolution are below their defaults
\* when the fields are allocated, and the negotiated formats never change.
C25_BothResolutionsReduced ==
  /\ [](Degraded =>
          /\ ~CONFIG.SHADING
          /\ CONFIG.DYE_RESOLUTION < DYE_RESOLUTION
          /\ CONFIG.SIM_RESOLUTION < SIM_RESOLUTION
          /\ \A i \in InitRuns :
               /\ ShortSide(log[i].simRes) < SIM_RESOLUTION
               /\ ShortSide(log[i].dyeRes) < DYE_RESOLUTION)
  /\ NegotiationFrozen

\* C25 amended: without linear filtering shading is disabled and the dye
\* resolution is 512 before any field is allocated, while the simulation
\* resolution stays 128; with linear filtering on a non-mobile host
\* nothing is adjusted, whatever formats were negotiated, the fixed-point
\* fallback included; the negotiated formats, filtering and precision type
\* never change once set.
C25_DyeReducedShadingOff ==
  /\ [](Degraded =>
          /\ ~CONFIG.SHADING
          /\ CONFIG.DYE_RESOLUTION = DYE_RESOLUTION_LOW
          /\ CONFIG.SIM_RESOLUTION = SIM_RESOLUTION
          /\ AllocatedAt(SIM_RESOLUTION, DYE_RESOLUTION_LOW)
          /\ \A i \in InitRuns : log[i].allocsBefore = 0 => BootLog(log))
  /\ []((phase = "running" /\ ext.supportLinearFiltering /\ ~isMobile) =>
          /\ CONFIG.SHADING
          /\ CONFIG.DYE_RESOLUTION = DYE_RESOLUTION
          /\ CONFIG.SIM_RESOLUTION = SIM_RESOLUTION)
  /\ NegotiationFrozen

\* A WebGL1 host without linear filtering runs on the fixed-point fallback
\* format with its fields allocated.
C25_Witness ==
  /\ Degraded
  /\ phase = "running"
  /\ ext.formatRGBA = getFallbackFormat
  /\ InitRuns # {}
  /\ Exists("dye", dye)

GensIn(l) == {i \in 1 .. Len(l) : l[i].op = "gen"}
Colors(ps) == [i \in 1 .. Len(ps) |-> ps[i].color]
ColorfulOff(s) == [s EXCEPT !.CONFIG.COLORFUL = FALSE]
\* The timer after the addition of line 416 in the tick whose log is l.
TimerSum(l) == colorUpdateTimer + l[1].dt * CONFIG.COLOR_UPDATE_SPEED

\* updateColors in a tick: below the threshold only the timer changes; at
\* the threshold the timer is wrapped and `who` get new colors.
CyclesOnThreshold(recoloredSlots) ==
  /\ TickLog(log') =>
       IF TimerSum(log') >= 1000000
       THEN /\ colorUpdateTimer' = wrap(TimerSum(log'), 0, 1000000)
            /\ colorUpdateTimer' >= 0 /\ colorUpdateTimer' < 1000000
            /\ \A i \in 1 .. Len(pointers) :
                 IF i \in recoloredSlots
                 THEN /\ pointers'[i].color.kind = "rgb"
                      /\ pointers'[i].color # pointers[i].color
                 ELSE pointers'[i].color = pointers[i].color
            /\ paletteIndex' = paletteIndex + Cardinality(recoloredSlots)
            /\ Cardinality(GensIn(log')) = Cardinality(recoloredSlots)
       ELSE /\ colorUpdateTimer' = TimerSum(log')
            /\ Colors(pointers') = Colors(pointers)
            /\ paletteIndex' = paletteIndex
            /\ GensIn(log') = {}
  /\ ~(TickLog(log') \/ BootLog(log')) => colorUpdateTimer' = colorUpdateTimer
  /\ \A dt \in {0, 16000, DtClamp} :
       updateColors(ColorfulOff(Cur), dt) = ColorfulOff(Cur)

\* C26 as stated: at the threshold only the pointers that are down get a
\* new color.
C26_OnlyActiveRecolored ==
  [][CyclesOnThreshold({i \in 1 .. Len(pointers) : pointers[i].down})]_vars

\* C26 amended: at the threshold every pointer slot, down or not, gets a
\* new color and the palette index advances by the number of slots; the
\* timer is wrapped into [0,1); in every other tick only the timer changes;
\* with COLORFUL disabled updateColors changes nothing.
C26_AllSlotsRecolored == [][CyclesOnThreshold(1 .. Len(pointers))]_vars

\* A tick reached the threshold and recolored the mouse pointer, which was
\* not down.
C26_Witness ==
  /\ TickLog(log)
  /\ Cardinality(GensIn(log)) = Len(pointers)
  /\ ~pointers[1].down
  /\ pointers[1].color.kind = "rgb"
  /\ colorUpdateTimer < 1000000
  /\ paletteIndex > 0

DistinctIds(tasks) ==
  \A i, j \in 1 .. Len(tasks) : tasks[i].id = tasks[j].id => i = j

\* C27: when the ids of the tasks passed to rolloverIncompleteTasks are
\* pairwise distinct, the ids of the returned updatedTasks are pairwise
\* distinct, and every new instance has an id greater than every input id.
C27_RolloverKeepsIdsUnique ==
  \A n \in 1 .. Len(todo.last) :
    LET c == todo.last[n]
    IN DistinctIds(c.tasks) =>
         /\ DistinctIds(c.updatedTasks)
         /\ \A k \in 1 .. Len(Added(c)) : \A i \in 1 .. Len(c.tasks) :
              Added(c)[k].id > c.tasks[i].id

\* The color passed to splat by the splatPointer call recorded at l[k]: the
\* first splatColor entry after it.
SplatColorAfter(l, k) ==
  l[CHOOSE j \in SplatColors(l) :
      j > k /\ \A m \in SplatColors(l) : m > k => j <= m].color

GeneratedBeforeSplat ==
  /\ \A k \in 1 .. Len(log') :
       log'[k].op = "splatPointer" =>
         /\ \E j \in SplatColors(log') : j > k
         /\ SplatColorAfter(log', k).kind = "rgb"
         /\ SplatColorAfter(log', k) = pointers'[log'[k].pointer].color
  /\ \A i \in 1 .. Len(pointers') :
       /\ (pointers'[i].down \/ pointers'[i].moved) =>
            pointers'[i].color.kind = "rgb"
       /\ (pointers'[i].moved /\ (i > Len(pointers) \/ ~pointers[i].moved)) =>
            MoveLog(log') /\ pointers[i].down
       /\ (pointers'[i].down /\ (i > Len(pointers) \/ ~pointers[i].down)) =>
            /\ PressLog(log')
            /\ \E g \in GensIn(log') : log'[g].color = pointers'[i].color

\* C28: every splatPointer passes splat a color generated by generateColor,
\* never the placeholder of pointerPrototype; a pointer that is down or has
\* moved carries a generated color, moved is set only by a move handled
\* while the pointer is down, and down is set only by a press, which
\* assigns a color it generated.
C28_SplatColorGenerated == [][GeneratedBeforeSplat]_vars

\* A tick has splatted a pointer that was pressed and moved.
C28_Witness ==
  /\ TickLog(log)
  /\ \E k \in 1 .. Len(log) :
       /\ log[k].op = "splatPointer"
       /\ SplatColorAfter(log, k).kind = "rgb"
  /\ \E i \in 1 .. Len(pointers) : pointers[i].color.kind = "array"

Bursts(l) == {i \in 1 .. Len(l) : IsCall(l, i, "multipleSplats")}
SpaceLog(l) == Len(l) > 0 /\ IsCall(l, 1, "keydown") /\ l[1].code = "Space"

BurstPerTick ==
  /\ SpaceLog(log') =>
       /\ Len(splatStack') = Len(splatStack) + 1
       /\ SubSeq(splatStack', 1, Len(splatStack)) = splatStack
       /\ splatStack'[Len(splatStack')] \in BurstBase .. BurstBase + BurstSpan - 1
  /\ TickLog(log') =>
       IF Len(splatStack) > 0
       THEN /\ splatStack' = SubSeq(splatStack, 1, Len(splatStack) - 1)
            /\ Cardinality(Bursts(log')) = 1
            /\ \A i \in Bursts(log') :
                 log'[i].amount = splatStack[Len(splatStack)]
            /\ Cardinality(SplatDraws(log', "velocity")) =
                 splatStack[Len(splatStack)]
            /\ Cardinality(SplatDraws(log', "dye")) =
                 splatStack[Len(splatStack)]
            /\ Cardinality(GensIn(log')) = splatStack[Len(splatStack)]
       ELSE /\ splatStack' = splatStack
            /\ Bursts(log') = {}
            /\ Draws(log', {"splat"}) = {}
  /\ ~(SpaceLog(log') \/ TickLog(log')) => splatStack' = splatStack

\* C29: a Space keypress pushes one burst size in 5..24 on splatStack; a
\* tick, paused or not, pops the most recently pushed size when one is
\* pending and performs exactly that many splats, and otherwise performs
\* none; nothing else changes the stack, so N pending bursts are consumed
\* by the next N ticks, each once.
C29_BurstsDrainedOnePerTick == [][BurstPerTick]_vars

\* A paused tick has performed the later of two pending bursts and left the
\* earlier one on the stack.
C29_Witness ==
  /\ TickLog(log)
  /\ CONFIG.PAUSED
  /\ Len(splatStack) = 1
  /\ \E i \in Bursts(log) :
       log[i].amount # splatStack[1] /\ log[i].amount >= BurstBase

\* C30: for every recurring task, base day and target day, shouldRecurOnDate
\* is true exactly when calculateNextOccurrence returns an occurrence.
C30_DecidersAgree ==
  \A n \in 1 .. Len(todo.last) :
    todo.last[n].should = todo.last[n].next.some

====
